---- MODULE Spec2Model ----
(***************************************************************************)
(* Balance aggregation of ecency/vision-api (src/server/handlers/           *)
(* private-api.ts, src/server/helper.ts): the balance() request handler,    *)
(* the Chainstack node directory, the Bitcoin scantxoutset cache and the    *)
(* in-flight map that de-duplicates concurrent scans.                       *)
(*                                                                         *)
(* Strings the code inspects character by character (chain key, address,   *)
(* provider query value) are sequences of one-character strings.            *)
(* Time is in milliseconds, as Date.now().                                  *)
(***************************************************************************)
EXTENDS Integers, Sequences, FiniteSets, TLC

\* ------------------------------------------------------------------ bounds
\* Request slots: the number of balance requests of one behaviour.
NumReq == 2
\* Requests of one behaviour when every request and reply kind is allowed.
MaxWide == 1
\* How often the clock advances in one behaviour.
MaxTicks == 2
\* How often the clock advances in a behaviour of the node directory.
MaxDirTicks == 3
\* The longest enumerated text of hexadecimal digits.
MaxHexLen == 3
\* The longest enumerated body text of a Chainz answer.
MaxTextLen == 3

\* ------------------------------------------------------- program constants
BTC_CACHE_TTL_MS == 600000
CHAINSTACK_NODE_CACHE_TTL_MS == 18000000

\* ------------------------------------------------------------- characters
LowerLetters ==
    {"a","b","c","d","e","f","g","h","i","j","k","l","m",
     "n","o","p","q","r","s","t","u","v","w","x","y","z"}
Digits == {"0","1","2","3","4","5","6","7","8","9"}
HexDigits == Digits \cup {"a","b","c","d","e","f","A","B","C","D","E","F"}
Whitespace == {" "}

\* String.prototype.toLowerCase on the characters the inputs use.
LowerChar(c) ==
    CASE c = "A" -> "a" [] c = "B" -> "b" [] c = "C" -> "c" [] c = "D" -> "d"
      [] c = "E" -> "e" [] c = "F" -> "f" [] c = "H" -> "h" [] c = "I" -> "i"
      [] c = "K" -> "k" [] c = "L" -> "l" [] c = "M" -> "m" [] c = "N" -> "n"
      [] c = "O" -> "o" [] c = "R" -> "r" [] c = "S" -> "s" [] c = "T" -> "t"
      [] c = "Z" -> "z" [] OTHER -> c
toLowerCase(s) == [i \in 1..Len(s) |-> LowerChar(s[i])]

\* String.prototype.trim
RECURSIVE TrimLeft(_)
TrimLeft(s) == IF s # <<>> /\ Head(s) \in Whitespace THEN TrimLeft(Tail(s)) ELSE s
RECURSIVE TrimRight(_)
TrimRight(s) ==
    IF s # <<>> /\ s[Len(s)] \in Whitespace THEN TrimRight(SubSeq(s, 1, Len(s) - 1)) ELSE s
trim(s) == TrimRight(TrimLeft(s))

\* ------------------------------------------------------------ chain keys
btc == <<"b","t","c">>
eth == <<"e","t","h">>
bnb == <<"b","n","b">>
sol == <<"s","o","l">>
tron == <<"t","r","o","n">>
ton == <<"t","o","n">>
apt == <<"a","p","t">>

\* /^[a-z0-9-]+$/i
CHAIN_PARAM_REGEX(s) ==
    /\ Len(s) >= 1
    /\ \A i \in 1..Len(s) : LowerChar(s[i]) \in LowerLetters \cup Digits \cup {"-"}

\* The own keys of the CHAIN_HANDLERS object literal.
ChainHandlerKeys == {btc, eth, bnb, sol, tron, ton, apt}
\* CHAIN_HANDLERS is a plain object literal, so a property read also finds the
\* members of Object.prototype; "constructor" is the one whose name is made of
\* lower-case letters only, and its value (the Object function) is truthy.
ObjectPrototypeKeys == {<<"c","o","n","s","t","r","u","c","t","o","r">>}

\* CHAIN_HANDLERS[normalizedChain]: "own" a ChainHandler, "inherited" a truthy
\* value that is no ChainHandler, "undefined" nothing.
CHAIN_HANDLERS(key) ==
    IF key \in ChainHandlerKeys THEN "own"
    ELSE IF key \in ObjectPrototypeKeys THEN "inherited"
    ELSE "undefined"

\* /^0x[a-fA-F0-9]{40}$/
EvmAddressRegex(a) ==
    /\ Len(a) = 42
    /\ a[1] = "0" /\ a[2] = "x"
    /\ \A i \in 3..42 : a[i] \in HexDigits

\* CHAIN_HANDLERS.apt.validateAddress
AptValidateAddress(a) ==
    LET has0x == Len(a) >= 2 /\ a[1] = "0" /\ a[2] = "x"
        hex == IF has0x THEN SubSeq(a, 3, Len(a)) ELSE a
    IN  /\ Len(hex) >= 1
        /\ \A i \in 1..Len(hex) : hex[i] \in HexDigits
        /\ Len(hex) % 2 = 0

\* handler.validateAddress && !handler.validateAddress(address): TRUE when the
\* request is rejected. Only eth, bnb and apt declare validateAddress; the
\* inherited Object function has no such member.
AddressRejected(key, a) ==
    /\ CHAIN_HANDLERS(key) = "own"
    /\ \/ key \in {eth, bnb} /\ ~EvmAddressRegex(a)
       \/ key = apt /\ ~AptValidateAddress(a)

\* The needle handler.selectNode looks for in a node's endpoints.
Needle(key) ==
    CASE key = btc -> "bitcoin" [] key = eth -> "ethereum" [] key = bnb -> "bsc"
      [] key = sol -> "solana" [] key = tron -> "tron"
      [] key = apt -> "aptos" [] OTHER -> "none"

\* parseBalanceProvider: the query value is undefined, an array (a repeated
\* parameter) or a string.
Undefined == [type |-> "undefined"]
StringValue(s) == [type |-> "string", text |-> s]
ArrayValue == [type |-> "array"]
\* Mutant: blockstream is not recognised.
parseBalanceProvider_ChainzOnly(value) ==
    IF value.type = "string" /\ toLowerCase(trim(value.text)) = <<"c","h","a","i","n","z">>
    THEN "chainz" ELSE "chainstack"

parseBalanceProvider(value) ==
    IF value.type = "string"
    THEN LET normalized == toLowerCase(trim(value.text))
         IN  IF normalized = <<"c","h","a","i","n","z">> THEN "chainz"
             ELSE IF normalized = <<"b","l","o","c","k","s","t","r","e","a","m">>
                  THEN "blockstream"
             ELSE "chainstack"
    ELSE "chainstack"

\* ------------------------------------------------------------ environment
\* A ChainstackNode: host is the chain hostname its endpoints contain, https
\* whether details.https_endpoint is set (a node may expose only wss).
Node(id, status, host, https) ==
    [id |-> id, status |-> status, host |-> host, https |-> https,
     ton |-> [v3 |-> "none", v2 |-> "none"]]

\* A node of the TON chain: details.toncenter_api_v3 and toncenter_api_v2 are
\* "none" (unset), "plain" (a base URL) or "jsonrpc" (a URL ending in
\* /jsonrpc).
TonNode(id, status, v3, v2) ==
    [id |-> id, status |-> status, host |-> "ton", https |-> TRUE,
     ton |-> [v3 |-> v3, v2 |-> v2]]
NoNode == Node("", "", "", FALSE)

\* What the provisioning service may answer (response.data.results).
ProvisionResults ==
    { << Node("n1", "running", "bitcoin", TRUE), Node("n2", "running", "ethereum", TRUE),
         Node("n3", "stopped", "solana", TRUE) >>,
      << Node("n1", "stopped", "bitcoin", TRUE), Node("n2", "running", "ethereum", TRUE) >>,
      << Node("n2", "stopped", "ethereum", TRUE), Node("n4", "running", "solana", TRUE) >>,
      << Node("n5", "running", "bitcoin", FALSE) >> }

\* Block hashes of the Bitcoin node, in chain order.
Blocks == <<"h1", "h2">>
\* total_amount the node's UTXO set holds for an address at a block, a JSON
\* number of bitcoins, given here as its count of satoshis (1e-8 bitcoin).
AmountAt(block) == IF block = "h1" THEN 50000000 ELSE 1

\* The decimal digits of a natural number.
DigitChar(d) == <<"0","1","2","3","4","5","6","7","8","9">>[d + 1]
RECURSIVE DigitsOf(_)
DigitsOf(n) == IF n < 10 THEN <<DigitChar(n)>> ELSE DigitsOf(n \div 10) \o <<DigitChar(n % 10)>>
RECURSIVE TrimTrailingZeros(_)
TrimTrailingZeros(s) ==
    IF s # <<>> /\ s[Len(s)] = "0" THEN TrimTrailingZeros(SubSeq(s, 1, Len(s) - 1)) ELSE s
RECURSIVE PadLeft(_, _)
PadLeft(s, n) == IF Len(s) >= n THEN s ELSE PadLeft(<<"0">> \o s, n)

\* Number.prototype.toString of the number sats / 1e8 (below 1e21): plain
\* decimal digits from 1e-6 up, exponent notation below.
NumberToString(sats) ==
    IF sats = 0 THEN <<"0">>
    ELSE IF sats < 100
    THEN LET d == DigitsOf(sats)
             m == TrimTrailingZeros(d)
             e == DigitsOf(8 - (Len(d) - 1))
         IN  <<m[1]>> \o (IF Len(m) > 1 THEN <<".">> \o SubSeq(m, 2, Len(m)) ELSE <<>>)
                     \o <<"e", "-">> \o e
    ELSE LET whole == DigitsOf(sats \div 100000000)
             frac == TrimTrailingZeros(PadLeft(DigitsOf(sats % 100000000), 8))
         IN  IF frac = <<>> THEN whole ELSE whole \o <<".">> \o frac

Null == [type |-> "null"]

\* An error value: axios tells an AxiosError, status its response's HTTP
\* status (0: no response), code and message the Error's members ("": unset).
Err(axios, status, code, message) ==
    [axios |-> axios, status |-> status, code |-> code, message |-> message]
NoErr == Err(FALSE, 0, "", "")

StartsWith0x(s) == Len(s) >= 2 /\ s[1] = "0" /\ s[2] = "x"

\* The outcome of a normalizer: the string it returns or the Error it throws.
Returned(text) == [ok |-> TRUE, value |-> StringValue(text), message |-> ""]
Thrown(message) == [ok |-> FALSE, value |-> Undefined, message |-> message]

\* String.prototype.replace(/^0+/, "")
RECURSIVE StripLeadingZeros(_)
StripLeadingZeros(s) == IF s # <<>> /\ Head(s) = "0" THEN StripLeadingZeros(Tail(s)) ELSE s

\* ---------------------------------------------------- hexadecimal balances
\* stripLeadingZeros (lines 402-405)
stripLeadingZeros(value) ==
    IF StripLeadingZeros(value) = <<>> THEN <<"0">> ELSE StripLeadingZeros(value)

\* charCodeAt(index) - 48 of a decimal digit.
DigitValue(c) ==
    CASE c = "0" -> 0 [] c = "1" -> 1 [] c = "2" -> 2 [] c = "3" -> 3 [] c = "4" -> 4
      [] c = "5" -> 5 [] c = "6" -> 6 [] c = "7" -> 7 [] c = "8" -> 8 [] c = "9" -> 9

\* The `while (carry > 0)` loops of lines 433-436 and 465-468.
RECURSIVE CarryDigits(_, _)
CarryDigits(carry, result) ==
    IF carry > 0 THEN CarryDigits(carry \div 10, <<DigitChar(carry % 10)>> \o result)
    ELSE result

\* The digit loop of multiplyDecimalString (lines 422-431), from the last
\* digit (index) to the first.
RECURSIVE MultiplyLoop(_, _, _, _, _)
MultiplyLoop(normalized, index, multiplier, carry, result) ==
    IF index = 0 THEN CarryDigits(carry, result)
    ELSE LET product == DigitValue(normalized[index]) * multiplier + carry
         IN  MultiplyLoop(normalized, index - 1, multiplier, product \div 10,
                          <<DigitChar(product % 10)>> \o result)

\* multiplyDecimalString (lines 407-439); multiplier is a natural number.
multiplyDecimalString(value, multiplier) ==
    LET normalized == stripLeadingZeros(value)
    IN  IF multiplier = 0 \/ normalized = <<"0">> THEN Returned(<<"0">>)
        ELSE IF \E i \in 1..Len(normalized) : normalized[i] \notin Digits
        THEN Thrown("Invalid decimal value during multiplication")
        ELSE Returned(stripLeadingZeros(
                 MultiplyLoop(normalized, Len(normalized), multiplier, 0, <<>>)))

\* The digit loop of addSmallIntToDecimalString (lines 454-463).
RECURSIVE AddLoop(_, _, _, _)
AddLoop(normalized, index, carry, result) ==
    IF index = 0 THEN CarryDigits(carry, result)
    ELSE LET sum == DigitValue(normalized[index]) + carry
         IN  AddLoop(normalized, index - 1, sum \div 10, <<DigitChar(sum % 10)>> \o result)

\* Mutant: the carry out of the first digit is dropped.
RECURSIVE AddLoop_NoCarryOut(_, _, _, _)
AddLoop_NoCarryOut(normalized, index, carry, result) ==
    IF index = 0 THEN result
    ELSE LET sum == DigitValue(normalized[index]) + carry
         IN  AddLoop_NoCarryOut(normalized, index - 1, sum \div 10,
                                <<DigitChar(sum % 10)>> \o result)

\* Mutant: addSmallIntToDecimalString without the carry out of the first digit.
addSmallIntToDecimalString_NoCarryOut(value, addend) ==
    LET normalized == stripLeadingZeros(value)
    IN  IF addend = 0 THEN Returned(normalized)
        ELSE IF \E i \in 1..Len(normalized) : normalized[i] \notin Digits
        THEN Thrown("Invalid decimal value during addition")
        ELSE Returned(stripLeadingZeros(
                 AddLoop_NoCarryOut(normalized, Len(normalized), addend, <<>>)))

\* addSmallIntToDecimalString (lines 441-471); addend is a natural number.
addSmallIntToDecimalString(value, addend) ==
    LET normalized == stripLeadingZeros(value)
    IN  IF addend = 0 THEN Returned(normalized)
        ELSE IF \E i \in 1..Len(normalized) : normalized[i] \notin Digits
        THEN Thrown("Invalid decimal value during addition")
        ELSE Returned(stripLeadingZeros(AddLoop(normalized, Len(normalized), addend, <<>>)))

\* parseInt(char, 16) of one character of a lower-cased string; -1 is NaN.
ParseHexChar(c) ==
    IF c \in Digits THEN DigitValue(c)
    ELSE CASE c = "a" -> 10 [] c = "b" -> 11 [] c = "c" -> 12 [] c = "d" -> 13
           [] c = "e" -> 14 [] c = "f" -> 15 [] OTHER -> -1

\* The `for (const char of normalized)` loop of hexToDecimalString (lines
\* 482-494): rest is what is left of normalized, result the value so far.
RECURSIVE HexLoop(_, _)
HexLoop(rest, result) ==
    IF rest = <<>> THEN Returned(stripLeadingZeros(result))
    ELSE LET digit == ParseHexChar(Head(rest))
             multiplied == multiplyDecimalString(result, 16)
             added == IF digit > 0 /\ multiplied.ok
                      THEN addSmallIntToDecimalString(multiplied.value.text, digit)
                      ELSE multiplied
         IN  IF digit = -1 THEN Thrown("Invalid hexadecimal balance response")
             ELSE IF ~added.ok THEN added
             ELSE HexLoop(Tail(rest), added.value.text)

\* hexToDecimalString (lines 473-497)
hexToDecimalString(value) ==
    LET normalized == stripLeadingZeros(toLowerCase(value))
    IN  IF normalized = <<"0">> THEN Returned(<<"0">>) ELSE HexLoop(normalized, <<"0">>)

\* parseHexBalance (lines 503-519); value is data.result.
parseHexBalance(value) ==
    IF value.type # "string" THEN Thrown("Invalid hexadecimal balance response")
    ELSE LET normalized == IF StartsWith0x(value.text)
                           THEN SubSeq(value.text, 3, Len(value.text)) ELSE value.text
         IN  IF normalized = <<>> THEN Returned(<<"0">>)
             ELSE IF hexToDecimalString(normalized).ok THEN hexToDecimalString(normalized)
             ELSE Thrown("Failed to parse hexadecimal balance")

\* ------------------------------------------------------- decimal amounts
\* helper.ts line 140: the decimals of CHAINZ_CHAIN_CONFIG.btc.
CHAINZ_BTC_DECIMALS == 8

\* /^\d*$/
AllDigits(s) == \A i \in 1..Len(s) : s[i] \in Digits

\* String.prototype.indexOf of one of the characters cs, 0 for "not found".
IndexOfAny(s, cs) ==
    IF \E i \in 1..Len(s) : s[i] \in cs
    THEN CHOOSE i \in 1..Len(s) : s[i] \in cs /\ \A j \in 1..(i - 1) : s[j] \notin cs
    ELSE 0

\* "0".repeat(n)
Zeros(n) == [i \in 1..n |-> "0"]

\* const [a, b = ""] = s.split("."): the parts before and after the first
\* ".", the second one ending at the next "."; later parts are dropped.
SplitPart(s, k) ==
    LET i == IndexOfAny(s, {"."})
        rest == SubSeq(s, i + 1, Len(s))
        j == IndexOfAny(rest, {"."})
    IN  IF k = 1 THEN (IF i = 0 THEN s ELSE SubSeq(s, 1, i - 1))
        ELSE IF i = 0 THEN <<>>
        ELSE IF j = 0 THEN rest ELSE SubSeq(rest, 1, j - 1)

\* Mutant: excess fractional digits are cut off silently.
convertDecimalToIntegerString_Truncates(value, decimals) ==
    LET trimmed == trim(value)
        digits == IF trimmed # <<>> /\ trimmed[1] \in {"+", "-"} THEN Tail(trimmed) ELSE trimmed
        sign == IF trimmed # <<>> /\ trimmed[1] = "-" THEN <<"-">> ELSE <<>>
        wholePartRaw == SplitPart(digits, 1)
        fractionalPartRaw == SplitPart(digits, 2)
        paddedFractional ==
            [i \in 1..decimals |-> IF i <= Len(fractionalPartRaw) THEN fractionalPartRaw[i] ELSE "0"]
        combined == (IF wholePartRaw = <<>> THEN <<"0">> ELSE wholePartRaw) \o paddedFractional
    IN  IF decimals < 0 THEN Thrown("Invalid decimal precision provided")
        ELSE IF trimmed = <<>> THEN Thrown("Invalid decimal value")
        ELSE IF digits = <<>> \/ digits = <<".">> THEN Thrown("Invalid decimal value")
        ELSE IF ~AllDigits(wholePartRaw) \/ ~AllDigits(fractionalPartRaw)
        THEN Thrown("Invalid decimal value")
        ELSE Returned(sign \o stripLeadingZeros(combined))

\* convertDecimalToIntegerString (helper.ts lines 35-83); its stripLeadingZeros
\* (helper.ts lines 30-33) has the body of the one above.
convertDecimalToIntegerString(value, decimals) ==
    LET trimmed == trim(value)
        digits == IF trimmed # <<>> /\ trimmed[1] \in {"+", "-"} THEN Tail(trimmed) ELSE trimmed
        sign == IF trimmed # <<>> /\ trimmed[1] = "-" THEN <<"-">> ELSE <<>>
        wholePartRaw == SplitPart(digits, 1)
        fractionalPartRaw == SplitPart(digits, 2)
        truncated == SubSeq(fractionalPartRaw, decimals + 1, Len(fractionalPartRaw))
        paddedFractional ==
            [i \in 1..decimals |-> IF i <= Len(fractionalPartRaw) THEN fractionalPartRaw[i] ELSE "0"]
        combined == (IF wholePartRaw = <<>> THEN <<"0">> ELSE wholePartRaw) \o paddedFractional
    IN  IF decimals < 0 THEN Thrown("Invalid decimal precision provided")
        ELSE IF trimmed = <<>> THEN Thrown("Invalid decimal value")
        ELSE IF digits = <<>> \/ digits = <<".">> THEN Thrown("Invalid decimal value")
        ELSE IF ~AllDigits(wholePartRaw) \/ ~AllDigits(fractionalPartRaw)
        THEN Thrown("Invalid decimal value")
        ELSE IF Len(fractionalPartRaw) > decimals /\ \E i \in 1..Len(truncated) : truncated[i] # "0"
        THEN Thrown("Decimal value exceeds supported precision")
        ELSE Returned(sign \o stripLeadingZeros(combined))

\* /[<][a-z!/]/i
LooksLikeHtml(s) ==
    \E i \in 1..(Len(s) - 1) :
        s[i] = "<" /\ (LowerChar(s[i + 1]) \in LowerLetters \/ s[i + 1] \in {"!", "/"})

\* /^\d+(\.\d+)?$/
MatchesUnsignedDecimal(s) ==
    LET i == IndexOfAny(s, {"."})
    IN  IF i = 0 THEN s # <<>> /\ AllDigits(s)
        ELSE /\ i > 1 /\ i < Len(s)
             /\ AllDigits(SubSeq(s, 1, i - 1))
             /\ AllDigits(SubSeq(s, i + 1, Len(s)))

\* An optional sign, split off.
SignOf(s) == IF s # <<>> /\ s[1] \in {"+", "-"} THEN <<s[1]>> ELSE <<>>
Unsigned(s) == IF s # <<>> /\ s[1] \in {"+", "-"} THEN Tail(s) ELSE s

\* /^[+-]?\d+(\.\d+)?$/
MatchesPlainDecimal(s) == MatchesUnsignedDecimal(Unsigned(s))

\* /^([+-]?)(\d+(?:\.\d+)?)[eE]([+-]?\d+)$/
MatchesScientific(s) ==
    LET e == IndexOfAny(s, {"e", "E"})
    IN  /\ e # 0
        /\ MatchesUnsignedDecimal(Unsigned(SubSeq(s, 1, e - 1)))
        /\ Unsigned(SubSeq(s, e + 1, Len(s))) # <<>>
        /\ AllDigits(Unsigned(SubSeq(s, e + 1, Len(s))))

\* Number(text) of a signed run of decimal digits.
RECURSIVE NumberOfDigits(_)
NumberOfDigits(s) ==
    IF s = <<>> THEN 0 ELSE 10 * NumberOfDigits(SubSeq(s, 1, Len(s) - 1)) + DigitValue(s[Len(s)])
NumberOf(s) == IF SignOf(s) = <<"-">> THEN 0 - NumberOfDigits(Unsigned(s)) ELSE NumberOfDigits(Unsigned(s))

\* Number.isFinite(Number(text)) of a signed run of decimal digits: a double
\* holds every integer of up to 308 digits.
IsFiniteNumber(s) == Len(StripLeadingZeros(Unsigned(s))) <= 308

\* Mutant: the exponent alone places the decimal point.
normalizeChainzBalance_ExponentOnly(value) ==
    LET trimmed == trim(value)
        e == IndexOfAny(trimmed, {"e", "E"})
        sign == SignOf(SubSeq(trimmed, 1, e - 1))
        significand == Unsigned(SubSeq(trimmed, 1, e - 1))
        exponentRaw == SubSeq(trimmed, e + 1, Len(trimmed))
        wholePartRaw == SplitPart(significand, 1)
        fractionalPartRaw == SplitPart(significand, 2)
        digits == wholePartRaw \o fractionalPartRaw
        decimalIndex == NumberOf(exponentRaw)
        whole == SubSeq(digits, 1, decimalIndex)
        fraction == SubSeq(digits, decimalIndex + 1, Len(digits))
    IN  IF LooksLikeHtml(trimmed) THEN Thrown("Chainz returned HTML (likely error or rate limit)")
        ELSE IF trimmed = <<>> THEN Thrown("Chainz returned balance in unexpected format")
        ELSE IF MatchesPlainDecimal(trimmed) THEN Returned(trimmed)
        ELSE IF ~MatchesScientific(trimmed) THEN Thrown("Chainz returned balance in unexpected format")
        ELSE IF ~IsFiniteNumber(exponentRaw) THEN Thrown("Chainz returned balance in unexpected format")
        ELSE IF decimalIndex >= Len(digits)
        THEN Returned(sign \o digits \o Zeros(decimalIndex - Len(digits)))
        ELSE IF decimalIndex <= 0
        THEN Returned(sign \o <<"0", ".">> \o Zeros(0 - decimalIndex) \o digits)
        ELSE IF fraction = <<>> THEN Returned(sign \o whole)
        ELSE Returned(sign \o whole \o <<".">> \o fraction)

\* normalizeChainzBalance (helper.ts lines 85-135)
normalizeChainzBalance(value) ==
    LET trimmed == trim(value)
        e == IndexOfAny(trimmed, {"e", "E"})
        sign == SignOf(SubSeq(trimmed, 1, e - 1))
        significand == Unsigned(SubSeq(trimmed, 1, e - 1))
        exponentRaw == SubSeq(trimmed, e + 1, Len(trimmed))
        wholePartRaw == SplitPart(significand, 1)
        fractionalPartRaw == SplitPart(significand, 2)
        digits == wholePartRaw \o fractionalPartRaw
        decimalIndex == Len(wholePartRaw) + NumberOf(exponentRaw)
        whole == SubSeq(digits, 1, decimalIndex)
        fraction == SubSeq(digits, decimalIndex + 1, Len(digits))
    IN  IF LooksLikeHtml(trimmed) THEN Thrown("Chainz returned HTML (likely error or rate limit)")
        ELSE IF trimmed = <<>> THEN Thrown("Chainz returned balance in unexpected format")
        ELSE IF MatchesPlainDecimal(trimmed) THEN Returned(trimmed)
        ELSE IF ~MatchesScientific(trimmed) THEN Thrown("Chainz returned balance in unexpected format")
        ELSE IF ~IsFiniteNumber(exponentRaw) THEN Thrown("Chainz returned balance in unexpected format")
        ELSE IF decimalIndex >= Len(digits)
        THEN Returned(sign \o digits \o Zeros(decimalIndex - Len(digits)))
        ELSE IF decimalIndex <= 0
        THEN Returned(sign \o <<"0", ".">> \o Zeros(0 - decimalIndex) \o digits)
        ELSE IF fraction = <<>> THEN Returned(sign \o whole)
        ELSE Returned(sign \o whole \o <<".">> \o fraction)

\* The attempt of fetchChainzBalance on the body text of a Chainz answer
\* (helper.ts lines 325-343): the balance, or what it throws.
ChainzAttempt(data) ==
    LET text == trim(data)
        raw == normalizeChainzBalance(text)
    IN  IF text = <<>> \/ LooksLikeHtml(text) THEN Thrown("Chainz non-numeric response")
        ELSE IF ~raw.ok THEN raw
        ELSE convertDecimalToIntegerString(raw.value.text, CHAINZ_BTC_DECIMALS)

\* Mutant: trailing zeros of the fraction are kept.
formatBitcoinFromSats_KeepsZeros(value) ==
    LET neg == value # <<>> /\ value[1] = "-"
        sign == IF neg THEN <<"-">> ELSE <<>>
        digits == stripLeadingZeros(IF neg THEN Tail(value) ELSE value)
        n == Len(digits)
    IN  IF ~((IF neg THEN Tail(value) ELSE value) # <<>> /\ AllDigits(IF neg THEN Tail(value) ELSE value))
        THEN Thrown("Invalid satoshi balance")
        ELSE IF digits = <<"0">> THEN Returned(sign \o <<"0">>)
        ELSE IF n <= 8 THEN Returned(sign \o <<"0", ".">> \o PadLeft(digits, 8))
        ELSE Returned(sign \o stripLeadingZeros(SubSeq(digits, 1, n - 8)) \o <<".">> \o SubSeq(digits, n - 7, n))

\* formatBitcoinFromSats (lines 1228-1265)
formatBitcoinFromSats(value) ==
    LET neg == value # <<>> /\ value[1] = "-"
        sign == IF neg THEN <<"-">> ELSE <<>>
        digits == stripLeadingZeros(IF neg THEN Tail(value) ELSE value)
        n == Len(digits)
    IN  \* /^-?\d+$/
        IF ~((IF neg THEN Tail(value) ELSE value) # <<>> /\ AllDigits(IF neg THEN Tail(value) ELSE value))
        THEN Thrown("Invalid satoshi balance")
        ELSE IF digits = <<"0">> THEN Returned(sign \o <<"0">>)
        ELSE IF n <= 8
        THEN LET fraction == TrimTrailingZeros(PadLeft(digits, 8))
             IN  IF fraction = <<>> THEN Returned(sign \o <<"0">>)
                 ELSE Returned(sign \o <<"0", ".">> \o fraction)
        ELSE LET whole == stripLeadingZeros(SubSeq(digits, 1, n - 8))
                 fraction == TrimTrailingZeros(SubSeq(digits, n - 7, n))
             IN  IF fraction = <<>> THEN Returned(sign \o whole)
                 ELSE Returned(sign \o whole \o <<".">> \o fraction)

\* Replies to the getbestblockhash call.
TipReplies ==
    { [kind |-> "result"],
      [kind |-> "rpcError"],
      [kind |-> "axios", status |-> 0, code |-> "ECONNABORTED"],
      [kind |-> "axios", status |-> 499, code |-> "ERR_BAD_REQUEST"],
      [kind |-> "axios", status |-> 500, code |-> "ERR_BAD_RESPONSE"] }

\* Replies to the scantxoutset call: a result, a JSON-RPC error whose message
\* contains the given phrase, a result with a member missing, an axios failure.
ScanReplies ==
    { [kind |-> "result", amountType |-> "number", bestblock |-> TRUE],
      [kind |-> "result", amountType |-> "null", bestblock |-> TRUE],
      [kind |-> "result", amountType |-> "string", bestblock |-> FALSE],
      [kind |-> "rpcError", phrase |-> "method not found"],
      [kind |-> "rpcError", phrase |-> "scan already in progress"],
      [kind |-> "rpcError", phrase |-> "other"],
      [kind |-> "axios", status |-> 0, code |-> "ECONNABORTED"],
      [kind |-> "axios", status |-> 500, code |-> "ERR_BAD_RESPONSE"] }

\* Outcomes of a non-Bitcoin adapter's call: a body whose result member is
\* given, or a failure.
AdapterReplies ==
    { [kind |-> "result", result |-> StringValue(<<"0","x","7">>)],
      [kind |-> "error", err |-> Err(TRUE, 404, "ERR_BAD_REQUEST", "Request failed with status code 404")],
      [kind |-> "error", err |-> Err(TRUE, 0, "ECONNABORTED", "timeout exceeded")],
      [kind |-> "error", err |-> Err(FALSE, 0, "", "Invalid balance response")] }

\* Outcomes of fetchBlockstreamBalance / fetchChainzBalance.
ProviderReplies ==
    { [kind |-> "result"],
      [kind |-> "error", err |-> Err(TRUE, 503, "ERR_BAD_RESPONSE", "Request failed with status code 503")],
      [kind |-> "error", err |-> Err(TRUE, 0, "ECONNABORTED", "timeout of 10000ms exceeded")],
      [kind |-> "error", err |-> Err(FALSE, 0, "", "provider failed")] }

\* getBlockstreamAccessToken without BLOCKSTREAM_CLIENT_ID or
\* BLOCKSTREAM_CLIENT_SECRET and without a cached token (helper.ts lines
\* 195-200): fetchBlockstreamBalance rejects before any HTTP request.
BlockstreamUnconfigured ==
    [kind |-> "error", err |-> Err(FALSE, 0, "", "Blockstream credentials are not configured")]

\* Body texts of a Chainz answer: every text of up to MaxTextLen of the
\* sampled characters, and longer ones.
DecimalSample == {"0", "1", "2", ".", "e", "-"}
ChainzLong ==
    { <<"1",".","2","3","4","5","6","7","8","9">>,
      <<"1",".","2","3","4","5","6","7","8","9","1">>,
      <<"1",".","2","3","4","5","6","7","8","9","0","0">>,
      <<"+","2","1",".","5","0">>,
      <<"-","0",".","0","0","0","0","0","0","0","1">>,
      <<"0","0","7",".","5">>,
      <<"1",".","5","e","3">>,
      <<"2","e","-","2">>,
      <<"1",".","5","0","E","+","1">>,
      <<"-","1","2",".","5","e","-","1">>,
      <<"1","e","-","8">>,
      <<"1","e","-","9">>,
      <<"1","2","3","4","5","6","7","8","9","e","-","9">>,
      <<" ","0",".","5"," ">>,
      <<"1",".","2",".","3">>,
      <<"<","h","t","m","l",">">>,
      <<"1","<","/","b",">">>,
      <<"1","<","2">>,
      <<"N","a","N">> }
ChainzTexts == UNION {[1..n -> DecimalSample] : n \in 0..MaxTextLen} \cup ChainzLong
ChainzTextReplies == {[kind |-> "text", text |-> t] : t \in ChainzTexts}

\* The outcomes of an alternate provider. fetchChainzBalance sends its request
\* with or without CHAINZ_API_KEY (helper.ts lines 305-310), so a missing key
\* adds no outcome of its own; its answer may be given by its body text.
RepliesOf(provider) ==
    IF provider = "blockstream" THEN ProviderReplies \cup {BlockstreamUnconfigured}
    ELSE ProviderReplies \cup ChainzTextReplies

\* What a provider's fetch settles with. A reply given by its text is the
\* Chainz answer to the attempt that decides fetchChainzBalance ("getbalance"
\* if it succeeds, else "addressbalance"); raw is the text the attempt kept.
ProviderOutcome(reply) ==
    IF reply.kind = "text"
    THEN IF ChainzAttempt(reply.text).ok
         THEN [kind |-> "result", balance |-> ChainzAttempt(reply.text).value.text,
               raw |-> StringValue(trim(reply.text))]
         ELSE [kind |-> "error", err |-> Err(FALSE, 0, "", ChainzAttempt(reply.text).message)]
    ELSE IF reply.kind = "result"
    THEN [kind |-> "result", balance |-> <<"5","0","0","0","0","0","0","0">>, raw |-> Undefined]
    ELSE reply

\* --------------------------------------------------------------- requests
Req == 1..NumReq

\* Bitcoin addresses (never inspected by the handler) and the others.
AddrA == <<"b","c","1","q">>
AddrB == <<"1","A","z">>
EvmGood == <<"0","x">> \o [i \in 1..40 |-> IF i % 2 = 0 THEN "a" ELSE "F"]
EvmShort == <<"0","x","a","b","c">>
AptOdd == <<"0","x","a","b","c">>
BtcAddresses == {AddrA, AddrB}

Input(chain, address, provider) == [chain |-> chain, address |-> address, provider |-> provider]
NoInput == Input(<<>>, <<>>, Undefined)

\* The requests a client may send: GET /balance/:chain/:address?provider=
Inputs ==
    { Input(btc, AddrA, Undefined),
      Input(<<"B","T","C">>, AddrB, ArrayValue),
      Input(btc, AddrA, StringValue(<<" ","C","h","a","i","n","z"," ">>)),
      Input(btc, AddrA, StringValue(<<"b","l","o","c","k","s","t","r","e","a","m">>)),
      Input(eth, EvmGood, Undefined),
      Input(eth, EvmGood, StringValue(<<"c","h","a","i","n","z">>)),
      Input(eth, EvmShort, Undefined),
      Input(apt, AptOdd, Undefined),
      Input(sol, AddrA, StringValue(<<"b","l","o","c","k","s","t","r","e","a","m">>)),
      Input(<<"x","y","z">>, AddrA, Undefined),
      Input(<<"x","y","z">>, AddrA, StringValue(<<"c","h","a","i","n","z">>)),
      Input(<<"c","o","n","s","t","r","u","c","t","o","r">>, AddrA, Undefined),
      Input(<<"b","_","c">>, AddrA, Undefined),
      Input(<<>>, AddrA, Undefined),
      Input(btc, <<>>, Undefined) }

VARIABLES
    apiKey,            \* process.env.CHAINSTACK_API_KEY is set
    cachedNodes,       \* the node directory's list: [set, nodes], set FALSE for null
    nodesCacheExpiry,
    now,               \* Date.now()
    ticks,             \* clock advances so far
    height,            \* index in Blocks of the Bitcoin node's best block
    btcCache,          \* address -> Null or [bestblock, balance, at]
    inFlightBtc,       \* address -> 0 or the request whose promise is registered
    input,             \* request -> its Input
    pc,                \* request -> where its handler is suspended
    nodesNow,          \* request -> `now` captured by fetchChainstackNodes
    calls,             \* request -> the outbound calls it issued, in order
    awaiting,          \* request -> the request whose scan promise it awaits
    scan,              \* request -> its tryScanTxOutSet().finally(...) promise
    ctx,               \* request -> the failure its fallback cascade handles and
                       \* the node its adapter was given
    res,               \* request -> the HTTP response it sent
    credentials,       \* BLOCKSTREAM_CLIENT_ID and BLOCKSTREAM_CLIENT_SECRET are set
    tokenCache,        \* cache holds a live entry under BLOCKSTREAM_TOKEN_CACHE_KEY
    attempt            \* request -> the provider fetch it runs, call by call

vars == <<apiKey, cachedNodes, nodesCacheExpiry, now, ticks, height, btcCache,
          inFlightBtc, input, pc, nodesNow, calls, awaiting, scan, ctx, res,
          credentials, tokenCache, attempt>>

\* The promise p of one fetchBitcoinBalance call: "none" not created,
\* "pending" tryScanTxOutSet running, "settled" tryScanTxOutSet settled and the
\* finally callback queued, "done" p itself settled.
NoScan == [state |-> "none", ok |-> FALSE, balance |-> <<>>, cached |-> FALSE, err |-> NoErr]
NoCtx == [origin |-> "", reason |-> "", err |-> NoErr, node |-> NoNode]
NoRes == [status |-> 0, xProvider |-> "", xFallbackReason |-> "", xOverrideIgnored |-> FALSE,
          body |-> "none", provider |-> "", balance |-> <<>>, cached |-> FALSE, message |-> "",
          raw |-> Undefined, unit |-> ""]

NoNodes == [set |-> FALSE, nodes |-> <<>>]
\* One call of fetchBlockstreamBalance or fetchChainzBalance: where it is
\* suspended, the allowRetry argument of its attempt, what it did so far (its
\* upstream calls, their answers, its cache operations) and how it settled.
NoAttempt == [fn |-> "", pc |-> "idle", allowRetry |-> FALSE, events |-> <<>>, outcome |-> ""]

\* The process after start-up, with the node cache, the scan cache and the
\* token cache (cache.ts) empty.
Constructed ==
    /\ apiKey \in BOOLEAN
    /\ cachedNodes = NoNodes
    /\ nodesCacheExpiry = 0
    /\ now = 1
    /\ ticks = 0
    /\ height = 1
    /\ btcCache = [a \in BtcAddresses |-> Null]
    /\ inFlightBtc = [a \in BtcAddresses |-> 0]
    /\ input = [r \in Req |-> NoInput]
    /\ pc = [r \in Req |-> "idle"]
    /\ nodesNow = [r \in Req |-> 0]
    /\ calls = [r \in Req |-> <<>>]
    /\ awaiting = [r \in Req |-> 0]
    /\ scan = [r \in Req |-> NoScan]
    /\ ctx = [r \in Req |-> NoCtx]
    /\ res = [r \in Req |-> NoRes]
    /\ tokenCache = FALSE
    /\ attempt = [r \in Req |-> NoAttempt]

\* The handlers see a provider fetch by its outcome alone, whatever the
\* credentials.
Init == Constructed /\ credentials = TRUE

\* ------------------------------------------------------------- responses
normalizedChain(in) == toLowerCase(in.chain)

\* Lines 1523-1532: the x-provider-override-ignored header, set once the chain
\* has a handler and before any later response is sent.
OverrideIgnored(in) ==
    /\ parseBalanceProvider(in.provider) \in {"chainz", "blockstream"}
    /\ normalizedChain(in) # btc

\* Lines 1504-1519: res.status(400).send(text) of the chain checks, sent
\* before the provider parameter is read.
EarlyResponse(status, text) ==
    [NoRes EXCEPT !.status = status, !.body = "text", !.message = text]

\* res.status(status).send(text)
TextResponse(in, status, text) ==
    [NoRes EXCEPT !.status = status, !.body = "text", !.message = text,
                  !.xOverrideIgnored = OverrideIgnored(in)]

\* A ChainBalanceResponse as the handler uses it.
Result(provider, balance, cached) ==
    [provider |-> provider, balance |-> balance, cached |-> cached]

\* The unit member of a fetcher's result: "satoshi" from fetchBlockstreamBalance
\* and fetchChainzBalance (helper.ts lines 285, 141), and the literal of the
\* chain's node adapter otherwise (private-api.ts lines 544-1387).
UnitOf(provider, key) ==
    IF provider \in {"blockstream", "chainz"} THEN "satoshi"
    ELSE CASE key = btc -> "btc"
           [] key \in {eth, bnb} -> "wei"
           [] key = sol -> "lamports"
           [] key = tron -> "sun"
           [] key = ton -> "nanotons"
           [] key = apt -> "octas"
           [] OTHER -> ""

\* Mutant: the header is set without looking at fallbackReason.
sendBalanceResponse_AlwaysReason(in, payload, fallbackReason) ==
    [NoRes EXCEPT !.status = 200, !.body = "balance",
                  !.xProvider = payload.provider,
                  !.xFallbackReason = IF fallbackReason = "" THEN "undefined" ELSE fallbackReason,
                  !.provider = payload.provider, !.balance = payload.balance,
                  !.cached = payload.cached,
                  !.unit = UnitOf(payload.provider, normalizedChain(in)),
                  !.xOverrideIgnored = OverrideIgnored(in)]

\* sendBalanceResponse(responsePayload, fallbackReason), with
\* applyProviderHeaders; fallbackReason "" stands for undefined.
sendBalanceResponse(in, payload, fallbackReason) ==
    [NoRes EXCEPT !.status = 200, !.body = "balance",
                  !.xProvider = payload.provider,
                  !.xFallbackReason = fallbackReason,
                  !.provider = payload.provider, !.balance = payload.balance,
                  !.cached = payload.cached,
                  !.unit = UnitOf(payload.provider, normalizedChain(in)),
                  !.xOverrideIgnored = OverrideIgnored(in)]

\* Lines 1636-1638: the node adapter's answer.
ChainstackResponse(in, payload) ==
    [NoRes EXCEPT !.status = 200, !.body = "balance", !.xProvider = "chainstack",
                  !.provider = payload.provider, !.balance = payload.balance,
                  !.cached = payload.cached,
                  !.unit = UnitOf(payload.provider, normalizedChain(in)),
                  !.xOverrideIgnored = OverrideIgnored(in)]

\* The handler's outer catch (lines 1653-1673).
CatchResponse(in, err) ==
    IF err.axios /\ err.status # 0
    THEN [NoRes EXCEPT !.status = err.status, !.body = "upstream",
                       !.xOverrideIgnored = OverrideIgnored(in)]
    ELSE [NoRes EXCEPT !.status = 502, !.body = "error", !.message = err.message,
                       !.xOverrideIgnored = OverrideIgnored(in)]

\* String(err?.code || err?.message || "unknown")
FallbackReason(err) ==
    IF err.code # "" THEN err.code ELSE IF err.message # "" THEN err.message ELSE "unknown"

\* ------------------------------------------------- steps of one request
\* Each of the following constrains pc', calls', awaiting', scan', ctx', res'
\* and inFlightBtc' for request r; the actions add the other variables.

Respond(r, response) ==
    /\ pc' = [pc EXCEPT ![r] = "done"]
    /\ res' = [res EXCEPT ![r] = response]
    /\ UNCHANGED <<calls, awaiting, scan, ctx, inFlightBtc>>

\* Mutant: the alternates are tried in the other order.
CascadeOrder_Swapped == <<"chainz", "blockstream">>

\* Lines 1618-1619, 1626-1627, 1648-1649: the alternates in the order tried.
CascadeOrder == <<"blockstream", "chainz">>

\* The cascade starts: tryBlockstreamFallback(reason) is called. origin tells
\* what ends the request if both alternates fail.
StartFallback(r, origin, reason, err) ==
    /\ pc' = [pc EXCEPT ![r] = "fallback1"]
    /\ calls' = [calls EXCEPT ![r] = Append(@, CascadeOrder[1])]
    /\ ctx' = [ctx EXCEPT ![r] = [origin |-> origin, reason |-> reason, err |-> err, node |-> ctx[r].node]]
    /\ UNCHANGED <<awaiting, scan, res, inFlightBtc>>

\* Mutant: the cascade runs for every chain.
NodesFailed_AnyChain(r, in, err) == StartFallback(r, "nodes", "nodes-fetch-failed", err)

\* Mutant: a failed node discovery goes to the outer catch at once.
NodesFailed_NoCascade(r, in, err) == Respond(r, CatchResponse(in, err))

\* catch (fetchErr) of the node discovery (lines 1612-1622).
NodesFailed(r, in, err) ==
    IF normalizedChain(in) = btc
    THEN StartFallback(r, "nodes", "nodes-fetch-failed", err)
    ELSE Respond(r, CatchResponse(in, err))

\* endpointIncludes(node, needle)
endpointIncludes(node, needle) == node.host = needle

\* The predicate of a chain's selectNode (lines 1431-1471): an endpoint that
\* contains the chain's needle, for TON a Toncenter endpoint field that is set.
NodeMatches(node, key) ==
    IF key = ton THEN node.ton.v2 # "none" \/ node.ton.v3 # "none"
    ELSE endpointIncludes(node, Needle(key))

\* Mutant: the last matching node is taken.
selectNode_Last(nodes, key) ==
    LET hits == {i \in 1..Len(nodes) : NodeMatches(nodes[i], key)}
    IN  IF hits = {} THEN 0 ELSE CHOOSE i \in hits : \A j \in hits : i >= j

\* handler.selectNode(nodes): nodes.find(...) ?? null; 0 stands for null.
selectNode(nodes, key) ==
    LET hits == {i \in 1..Len(nodes) : NodeMatches(nodes[i], key)}
    IN  IF hits = {} THEN 0 ELSE CHOOSE i \in hits : \A j \in hits : i <= j

\* Mutant: the in-flight check finds nothing.
InFlightGet_Blind(key) == 0

\* Line 1367: inFlightBtc.get(key); 0 stands for undefined.
InFlightGet(key) == inFlightBtc[key]

\* Mutant: the promise is not registered.
InFlightSet_Dropped(key, r) == inFlightBtc

\* Line 1381: inFlightBtc.set(key, p), p being the promise of request r.
InFlightSet(key, r) == [inFlightBtc EXCEPT ![key] = r]

\* fetchBitcoinBalance up to its first suspension: ensureHttpsEndpoint, the
\* in-flight check, and either the join or the start and registration of
\* tryScanTxOutSet (which runs up to its getbestblockhash call).
fetchBitcoinBalance(r, in, node) ==
    IF ~node.https
    THEN StartFallback(r, "adapter", "Node does not expose an HTTPS endpoint",
                       Err(FALSE, 0, "", "Node does not expose an HTTPS endpoint"))
    ELSE LET key == in.address
             existing == InFlightGet(key)
         IN  IF existing # 0
             THEN /\ pc' = [pc EXCEPT ![r] = "await"]
                  /\ awaiting' = [awaiting EXCEPT ![r] = existing]
                  /\ UNCHANGED <<calls, scan, ctx, res, inFlightBtc>>
             ELSE /\ pc' = [pc EXCEPT ![r] = "tip"]
                  /\ calls' = [calls EXCEPT ![r] = Append(@, "tip")]
                  /\ scan' = [scan EXCEPT ![r] = [NoScan EXCEPT !.state = "pending"]]
                  /\ inFlightBtc' = InFlightSet(key, r)
                  /\ awaiting' = [awaiting EXCEPT ![r] = r]
                  /\ UNCHANGED <<ctx, res>>

\* Mutant: the REST requests come before the JSON-RPC ones.
TonEndpointAttempts_RestFirst(version, kind) ==
    LET all == IF version = "v3"
               THEN <<"v3:rest", "v3:query", "v3:jsonrpc", "v3:root">>
               ELSE <<"v2:rest", "v2:query", "v2:jsonrpc", "v2:root">>
    IN  IF kind = "none" THEN <<>>
        ELSE IF kind = "jsonrpc" THEN SubSeq(all, 1, 3)
        ELSE all

\* The requests fetchTonBalance sends to one Toncenter endpoint, in order:
\* doJsonRpc posts to <base>/jsonrpc and to <base>, or to <base> alone when it
\* already ends in /jsonrpc (lines 881-888); doRest gets
\* <rest>/getAddressBalance and <rest>?method=getAddressBalance (lines
\* 947-965).
TonEndpointAttempts(version, kind) ==
    LET all == IF version = "v3"
               THEN <<"v3:jsonrpc", "v3:root", "v3:rest", "v3:query">>
               ELSE <<"v2:jsonrpc", "v2:root", "v2:rest", "v2:query">>
    IN  IF kind = "none" THEN <<>>
        ELSE IF kind = "jsonrpc" THEN <<all[1], all[3], all[4]>>
        ELSE all

\* Every request of fetchTonBalance for a node, in order: the endpoint
\* candidates, v3 before v2 (lines 852-854, 971-998), then tonapi.io (lines
\* 1001-1024).
TonAttempts(node) ==
    TonEndpointAttempts("v3", node.ton.v3) \o TonEndpointAttempts("v2", node.ton.v2)
        \o <<"tonapi">>

\* The base58 alphabet of bs58check: no 0, O, I or l.
Base58Chars ==
    (Digits \ {"0"}) \cup (LowerLetters \ {"l"})
    \cup {"A","B","C","D","E","F","G","H","J","K","L","M","N","P","Q","R","S","T","U",
          "V","W","X","Y","Z"}

\* A Tron address with a correct checksum, one with a character outside the
\* alphabet, one with a wrong checksum, and one in hex form.
TronGood == <<"T","J","R","y","W","w","F","s">>
TronBadChar == <<"T","J","0","y","W","w","F","s">>
TronBadSum == <<"T","J","R","y","W","w","F","t">>
TronHex == <<"0","x","4","1","a","b">>

\* bs58check.decode(address) returns (TRUE) or throws (FALSE). It throws on a
\* character outside the alphabet and on a wrong checksum; the checksum is a
\* double SHA-256, which is not computed here: Bs58ChecksumOk lists the
\* addresses whose last four bytes are the checksum of the rest.
Bs58ChecksumOk == {TronGood}
bs58checkDecodes(address) ==
    /\ \A i \in 1..Len(address) : address[i] \in Base58Chars
    /\ address \in Bs58ChecksumOk

\* normalizeAptosAddress (lines 1032-1051)
normalizeAptosAddress(address) ==
    LET trimmed == trim(address)
        withoutPrefix == IF StartsWith0x(trimmed) THEN SubSeq(trimmed, 3, Len(trimmed)) ELSE trimmed
        normalizedHex == StripLeadingZeros(withoutPrefix)
        evenLengthHex == IF Len(normalizedHex) % 2 = 0 THEN normalizedHex ELSE <<"0">> \o normalizedHex
    IN  IF \E i \in 1..Len(withoutPrefix) : withoutPrefix[i] \notin HexDigits
        THEN Thrown("Invalid Aptos address provided")
        ELSE IF Len(evenLengthHex) > 64
        THEN Thrown("Aptos address length exceeds 32 bytes")
        ELSE Returned(<<"0","x">> \o toLowerCase(PadLeft(evenLengthHex, 64)))

\* Mutant: the adapters take every address to the node.
AdapterAddressError_None(key, address) == ""

\* What handler.fetchBalance throws over the address before it calls the node
\* ("": nothing): fetchTronBalance decodes an address without 0x prefix (lines
\* 652-659), fetchAptosBalance normalizes it (line 1056).
AdapterAddressError(key, address) ==
    IF key = tron /\ ~StartsWith0x(address) /\ ~bs58checkDecodes(address)
    THEN "Invalid Tron address provided"
    ELSE IF key = apt THEN normalizeAptosAddress(address).message
    ELSE ""

\* The handler from the node list on (lines 1611, 1624-1639).
WithNodes(r, in, nodes) ==
    LET key == normalizedChain(in)
        n == selectNode(nodes, key)
    IN  IF CHAIN_HANDLERS(key) = "inherited"
        THEN \* handler.selectNode is not a function: a TypeError inside the try
             NodesFailed(r, in, Err(FALSE, 0, "", "handler.selectNode is not a function"))
        ELSE IF n = 0
        THEN IF key = btc
             THEN StartFallback(r, "nonode", "no-node", NoErr)
             ELSE Respond(r, TextResponse(in, 502, "No Chainstack node available for requested chain"))
        ELSE IF key = btc
        THEN fetchBitcoinBalance(r, in, nodes[n])
        ELSE IF AdapterAddressError(key, in.address) # ""
        THEN \* thrown before any call, caught at line 1640 and rethrown
             /\ pc' = [pc EXCEPT ![r] = "done"]
             /\ ctx' = [ctx EXCEPT ![r] = [origin |-> "adapter", reason |-> "",
                                           err |-> Err(FALSE, 0, "", AdapterAddressError(key, in.address)),
                                           node |-> nodes[n]]]
             /\ res' = [res EXCEPT ![r] = CatchResponse(in, Err(FALSE, 0, "", AdapterAddressError(key, in.address)))]
             /\ UNCHANGED <<calls, awaiting, scan, inFlightBtc>>
        ELSE IF key = ton
        THEN \* fetchTonBalance up to its first axios.post
             /\ pc' = [pc EXCEPT ![r] = "ton"]
             /\ calls' = [calls EXCEPT ![r] = Append(@, TonAttempts(nodes[n])[1])]
             /\ ctx' = [ctx EXCEPT ![r].node = nodes[n]]
             /\ UNCHANGED <<awaiting, scan, res, inFlightBtc>>
        ELSE /\ pc' = [pc EXCEPT ![r] = "adapter"]
             /\ calls' = [calls EXCEPT ![r] = Append(@, "adapter")]
             /\ ctx' = [ctx EXCEPT ![r].node = nodes[n]]
             /\ UNCHANGED <<awaiting, scan, res, inFlightBtc>>

\* ------------------------------------------------------- Bitcoin scanning
\* The inner getBestBlockHash of fetchBitcoinBalance (lines 1293-1307) on a
\* reply, block being the node's best block.
getBestBlockHash(reply, block) ==
    CASE reply.kind = "result" -> [ok |-> TRUE, tip |-> block, err |-> NoErr]
      [] reply.kind = "rpcError" ->
            [ok |-> FALSE, tip |-> "", err |-> Err(FALSE, 0, "", "getbestblockhash failed")]
      [] OTHER ->
            IF reply.status = 499 \/ reply.code = "ECONNABORTED"
            THEN [ok |-> FALSE, tip |-> "", err |-> Err(FALSE, 0, "BTC_TIP_TIMEOUT", "BTC_TIP_TIMEOUT")]
            ELSE [ok |-> FALSE, tip |-> "",
                  err |-> Err(TRUE, reply.status, reply.code, "Request failed")]

\* Mutant: an entry of exactly the TTL's age still counts as fresh.
CacheHit_Inclusive(cached, tip, t) ==
    /\ cached # Null
    /\ cached.bestblock = tip
    /\ t - cached.at <= BTC_CACHE_TTL_MS

\* Line 1313: cached && cached.bestblock === tip && Date.now() - cached.at < TTL
CacheHit(cached, tip, t) ==
    /\ cached # Null
    /\ cached.bestblock = tip
    /\ t - cached.at < BTC_CACHE_TTL_MS

\* Lines 1324-1359 of tryScanTxOutSet on the scantxoutset reply.
ScanOutcome(reply, block) ==
    CASE reply.kind = "axios" ->
            [ok |-> FALSE, balance |-> <<>>, bestblock |-> "",
             err |-> Err(TRUE, reply.status, reply.code, "Request failed")]
      [] reply.kind = "rpcError" ->
            [ok |-> FALSE, balance |-> <<>>, bestblock |-> "",
             err |-> IF reply.phrase = "method not found"
                     THEN Err(FALSE, 0, "BTC_SCAN_UNAVAILABLE", "BTC_SCAN_UNAVAILABLE")
                     ELSE IF reply.phrase = "scan already in progress"
                     THEN Err(FALSE, 0, "BTC_SCAN_IN_PROGRESS", "BTC_SCAN_IN_PROGRESS")
                     ELSE Err(FALSE, 0, "BTC_SCAN_FAILED", "BTC_SCAN_FAILED: other")]
      [] OTHER ->
            LET balance == IF reply.amountType \in {"number", "string"}
                           THEN NumberToString(AmountAt(block)) ELSE <<>>
                bestblock == IF reply.bestblock THEN block ELSE ""
            IN  IF balance = <<>> \/ bestblock = ""
                THEN [ok |-> FALSE, balance |-> <<>>, bestblock |-> "",
                      err |-> Err(FALSE, 0, "BTC_INVALID_RESPONSE", "BTC_INVALID_RESPONSE")]
                ELSE [ok |-> TRUE, balance |-> balance, bestblock |-> bestblock, err |-> NoErr]

\* Mutant: the cache is written before the result's members are validated.
ScanStores_Unvalidated(outcome) == outcome.ok \/ outcome.err.code = "BTC_INVALID_RESPONSE"

\* Line 1361: whether tryScanTxOutSet writes the cache for this outcome.
ScanStores(outcome) == outcome.ok

\* Mutant: .then in place of .finally, the callback runs on success only.
FinallyRuns_OnSuccess(ok) == ok

\* Line 1380: .finally runs its callback whatever the outcome.
FinallyRuns(ok) == TRUE

Settled(ok, balance, cached, err) ==
    [state |-> "settled", ok |-> ok, balance |-> balance, cached |-> cached, err |-> err]

\* Mutant: the expiry is not looked at.
NodesCacheValid_NoExpiry(t) == cachedNodes.set

\* Line 277: cachedNodes && now < nodesCacheExpiry
NodesCacheValid(t) == cachedNodes.set /\ t < nodesCacheExpiry

\* ---------------------------------------------------------------- actions
\* Mutant: a named provider is called whatever the chain.
Begin_OverrideAnyChain(r, in) ==
    /\ pc[r] = "idle"
    /\ \A q \in 1..(r - 1) : pc[q] # "idle"     \* slots are taken in order
    /\ input' = [input EXCEPT ![r] = in]
    /\ UNCHANGED <<apiKey, credentials, tokenCache, attempt, cachedNodes, nodesCacheExpiry, now, ticks, height, btcCache>>
    /\ LET key == normalizedChain(in)
           provider == parseBalanceProvider(in.provider)
       IN  IF in.chain = <<>> \/ in.address = <<>>
           THEN Respond(r, EarlyResponse(400, "Missing chain or address")) /\ UNCHANGED nodesNow
           ELSE IF ~CHAIN_PARAM_REGEX(in.chain)
           THEN Respond(r, EarlyResponse(400, "Invalid chain parameter")) /\ UNCHANGED nodesNow
           ELSE IF CHAIN_HANDLERS(key) = "undefined"
           THEN Respond(r, EarlyResponse(400, "Unsupported chain")) /\ UNCHANGED nodesNow
           ELSE IF AddressRejected(key, in.address)
           THEN Respond(r, TextResponse(in, 400, "Invalid address format")) /\ UNCHANGED nodesNow
           ELSE IF provider \in {"chainz", "blockstream"}
           THEN /\ pc' = [pc EXCEPT ![r] = "override"]
                /\ calls' = [calls EXCEPT ![r] = Append(@, provider)]
                /\ UNCHANGED <<awaiting, scan, ctx, res, inFlightBtc, nodesNow>>
           \* fetchChainstackNodes up to its axios.get
           ELSE IF ~apiKey
           THEN /\ NodesFailed(r, in, Err(FALSE, 0, "", "Chainstack API key is not configured"))
                /\ UNCHANGED nodesNow
           ELSE IF NodesCacheValid(now)
           THEN WithNodes(r, in, cachedNodes.nodes) /\ UNCHANGED nodesNow
           ELSE /\ pc' = [pc EXCEPT ![r] = "nodes"]
                /\ calls' = [calls EXCEPT ![r] = Append(@, "nodes")]
                /\ nodesNow' = [nodesNow EXCEPT ![r] = now]
                /\ UNCHANGED <<awaiting, scan, ctx, res, inFlightBtc>>

\* A request arrives: balance() up to its first suspension.
Begin(r, in) ==
    /\ pc[r] = "idle"
    /\ \A q \in 1..(r - 1) : pc[q] # "idle"     \* slots are taken in order
    /\ input' = [input EXCEPT ![r] = in]
    /\ UNCHANGED <<apiKey, credentials, tokenCache, attempt, cachedNodes, nodesCacheExpiry, now, ticks, height, btcCache>>
    /\ LET key == normalizedChain(in)
           provider == parseBalanceProvider(in.provider)
       IN  IF in.chain = <<>> \/ in.address = <<>>
           THEN Respond(r, EarlyResponse(400, "Missing chain or address")) /\ UNCHANGED nodesNow
           ELSE IF ~CHAIN_PARAM_REGEX(in.chain)
           THEN Respond(r, EarlyResponse(400, "Invalid chain parameter")) /\ UNCHANGED nodesNow
           ELSE IF CHAIN_HANDLERS(key) = "undefined"
           THEN Respond(r, EarlyResponse(400, "Unsupported chain")) /\ UNCHANGED nodesNow
           ELSE IF AddressRejected(key, in.address)
           THEN Respond(r, TextResponse(in, 400, "Invalid address format")) /\ UNCHANGED nodesNow
           ELSE IF key = btc /\ provider \in {"chainz", "blockstream"}
           THEN /\ pc' = [pc EXCEPT ![r] = "override"]
                /\ calls' = [calls EXCEPT ![r] = Append(@, provider)]
                /\ UNCHANGED <<awaiting, scan, ctx, res, inFlightBtc, nodesNow>>
           \* fetchChainstackNodes up to its axios.get
           ELSE IF ~apiKey
           THEN /\ NodesFailed(r, in, Err(FALSE, 0, "", "Chainstack API key is not configured"))
                /\ UNCHANGED nodesNow
           ELSE IF NodesCacheValid(now)
           THEN WithNodes(r, in, cachedNodes.nodes) /\ UNCHANGED nodesNow
           ELSE /\ pc' = [pc EXCEPT ![r] = "nodes"]
                /\ calls' = [calls EXCEPT ![r] = Append(@, "nodes")]
                /\ nodesNow' = [nodesNow EXCEPT ![r] = now]
                /\ UNCHANGED <<awaiting, scan, ctx, res, inFlightBtc>>

\* Mutant: the provisioning answer is cached unfiltered.
RunningNodes_All(results) == results

\* Line 288: the filter of the provisioning answer.
RunningNodes(results) == SelectSeq(results, LAMBDA node : node.status = "running")

\* Mutant: a caller that finds a list cached when its call completes takes
\* that list and leaves the cache alone.
NodesReply_SharedList(r, results) ==
    /\ pc[r] = "nodes"
    /\ cachedNodes' = IF cachedNodes.set THEN cachedNodes
                      ELSE [set |-> TRUE, nodes |-> RunningNodes(results)]
    /\ nodesCacheExpiry' = IF cachedNodes.set THEN nodesCacheExpiry
                           ELSE nodesNow[r] + CHAINSTACK_NODE_CACHE_TTL_MS
    /\ WithNodes(r, input[r], IF cachedNodes.set THEN cachedNodes.nodes ELSE RunningNodes(results))
    /\ nodesNow' = [nodesNow EXCEPT ![r] = 0]
    /\ UNCHANGED <<apiKey, credentials, tokenCache, attempt, now, ticks, height, btcCache, input>>

\* The provisioning service answers fetchChainstackNodes (lines 288-293).
NodesReply(r, results) ==
    /\ pc[r] = "nodes"
    /\ cachedNodes' = [set |-> TRUE, nodes |-> RunningNodes(results)]
    /\ nodesCacheExpiry' = nodesNow[r] + CHAINSTACK_NODE_CACHE_TTL_MS
    /\ WithNodes(r, input[r], RunningNodes(results))
    /\ nodesNow' = [nodesNow EXCEPT ![r] = 0]
    /\ UNCHANGED <<apiKey, credentials, tokenCache, attempt, now, ticks, height, btcCache, input>>

\* Mutant: a failed refresh drops the cached list.
NodesError_ClearsCache(r) ==
    /\ pc[r] = "nodes"
    /\ NodesFailed(r, input[r], Err(FALSE, 0, "", "Unable to fetch Chainstack nodes"))
    /\ nodesNow' = [nodesNow EXCEPT ![r] = 0]
    /\ cachedNodes' = NoNodes /\ nodesCacheExpiry' = 0
    /\ UNCHANGED <<apiKey, credentials, tokenCache, attempt, now, ticks, height, btcCache, input>>

\* The provisioning call fails (lines 294-297).
NodesError(r) ==
    /\ pc[r] = "nodes"
    /\ NodesFailed(r, input[r], Err(FALSE, 0, "", "Unable to fetch Chainstack nodes"))
    /\ nodesNow' = [nodesNow EXCEPT ![r] = 0]
    /\ UNCHANGED <<apiKey, credentials, tokenCache, attempt, cachedNodes, nodesCacheExpiry, now, ticks, height, btcCache, input>>

\* Mutant: an adapter call that timed out is issued again.
AdapterReply_RetriesTimeout(r, reply) ==
    /\ pc[r] = "adapter"
    /\ IF reply.kind = "result"
       THEN Respond(r, ChainstackResponse(input[r], Result("chainstack", <<"7">>, FALSE)))
       ELSE IF reply.err.code = "ECONNABORTED" /\ Len(calls[r]) < 4
       THEN /\ calls' = [calls EXCEPT ![r] = Append(@, "adapter")]
            /\ UNCHANGED <<pc, awaiting, scan, ctx, res, inFlightBtc>>
       ELSE /\ pc' = [pc EXCEPT ![r] = "done"]
            /\ ctx' = [ctx EXCEPT ![r] = [ctx[r] EXCEPT !.origin = "adapter", !.err = reply.err]]
            /\ res' = [res EXCEPT ![r] = CatchResponse(input[r], reply.err)]
            /\ UNCHANGED <<calls, awaiting, scan, inFlightBtc>>
    /\ UNCHANGED <<apiKey, credentials, tokenCache, attempt, cachedNodes, nodesCacheExpiry, now, ticks, height, btcCache,
                   input, nodesNow>>

\* The balance an adapter makes of the result member of the node's answer:
\* fetchEvmBalance and fetchTronBalance parse it as a hexadecimal quantity
\* (lines 539, 674); the Solana and Aptos adapters take a decimal value as it
\* is, here always 7.
AdapterBalance(key, result) ==
    IF key \in {eth, bnb, tron} THEN parseHexBalance(result) ELSE Returned(<<"7">>)

\* Whether fetchAptosBalance answers an error of its resource lookup with the
\* view call: axios.isAxiosError(err) && err.response?.status === 404 (line
\* 1083).
AptosTriesView(key, err) == key = apt /\ err.axios /\ err.status = 404

\* A non-Bitcoin adapter's call settles (lines 1636-1651); for Aptos it is the
\* account-resource lookup (lines 1062-1082, 1125).
AdapterReply(r, reply) ==
    /\ pc[r] = "adapter"
    /\ IF reply.kind = "result" /\ AdapterBalance(normalizedChain(input[r]), reply.result).ok
       THEN Respond(r, [ChainstackResponse(input[r],
                           Result("chainstack",
                                  AdapterBalance(normalizedChain(input[r]), reply.result).value.text,
                                  FALSE))
                        EXCEPT !.raw = reply.result])
       ELSE IF reply.kind = "result"
       THEN /\ pc' = [pc EXCEPT ![r] = "done"]
            /\ ctx' = [ctx EXCEPT ![r] = [ctx[r] EXCEPT !.origin = "adapter",
                           !.err = Err(FALSE, 0, "", AdapterBalance(normalizedChain(input[r]), reply.result).message)]]
            /\ res' = [res EXCEPT ![r] = CatchResponse(input[r],
                           Err(FALSE, 0, "", AdapterBalance(normalizedChain(input[r]), reply.result).message))]
            /\ UNCHANGED <<calls, awaiting, scan, inFlightBtc>>
       ELSE IF AptosTriesView(normalizedChain(input[r]), reply.err)
       THEN /\ pc' = [pc EXCEPT ![r] = "view"]
            /\ calls' = [calls EXCEPT ![r] = Append(@, "view")]
            /\ UNCHANGED <<awaiting, scan, ctx, res, inFlightBtc>>
       ELSE /\ pc' = [pc EXCEPT ![r] = "done"]
            /\ ctx' = [ctx EXCEPT ![r] = [ctx[r] EXCEPT !.origin = "adapter", !.err = reply.err]]
            /\ res' = [res EXCEPT ![r] = CatchResponse(input[r], reply.err)]
            /\ UNCHANGED <<calls, awaiting, scan, inFlightBtc>>
    /\ UNCHANGED <<apiKey, credentials, tokenCache, attempt, cachedNodes, nodesCacheExpiry, now, ticks, height, btcCache,
                   input, nodesNow>>

\* Replies to the POST /v1/view of fetchAptosBalance: an array whose first
\* member is a string, a number or something else, or an axios failure.
ViewReplies ==
    { [kind |-> "result", first |-> "string"],
      [kind |-> "result", first |-> "number"],
      [kind |-> "result", first |-> "other"],
      [kind |-> "error", err |-> Err(TRUE, 404, "ERR_BAD_REQUEST", "Request failed with status code 404")],
      [kind |-> "error", err |-> Err(TRUE, 500, "ERR_BAD_RESPONSE", "Request failed with status code 500")],
      [kind |-> "error", err |-> Err(TRUE, 0, "ECONNABORTED", "timeout exceeded")] }

\* Mutant: every failure of the view call counts as an empty account.
ViewSwallows_Any(err) == TRUE

\* The catch of the view call (lines 1111-1115) rethrows unless the error is
\* an axios error with status 404.
ViewSwallows(err) == err.axios /\ err.status = 404

\* The view call of fetchAptosBalance settles (lines 1084-1123).
ViewReply(r, reply) ==
    /\ pc[r] = "view"
    /\ IF reply.kind = "result" /\ reply.first \in {"string", "number"}
       THEN Respond(r, ChainstackResponse(input[r], Result("chainstack", <<"9">>, FALSE)))
       ELSE IF reply.kind = "result" \/ ViewSwallows(reply.err)
       THEN Respond(r, ChainstackResponse(input[r], Result("chainstack", <<"0">>, FALSE)))
       ELSE /\ pc' = [pc EXCEPT ![r] = "done"]
            /\ ctx' = [ctx EXCEPT ![r] = [ctx[r] EXCEPT !.origin = "adapter", !.err = reply.err]]
            /\ res' = [res EXCEPT ![r] = CatchResponse(input[r], reply.err)]
            /\ UNCHANGED <<calls, awaiting, scan, inFlightBtc>>
    /\ UNCHANGED <<apiKey, credentials, tokenCache, attempt, cachedNodes, nodesCacheExpiry, now, ticks, height, btcCache,
                   input, nodesNow>>

\* Replies to a request of fetchTonBalance: a body that holds a balance, a
\* body that holds none (an error member, HTML, a 4xx answer), an axios
\* failure (a 5xx answer, a timeout).
TonReplies ==
    { [kind |-> "balance"],
      [kind |-> "nothing"],
      [kind |-> "error", err |-> Err(TRUE, 503, "ERR_BAD_RESPONSE", "Request failed with status code 503")],
      [kind |-> "error", err |-> Err(TRUE, 0, "ECONNABORTED", "timeout of 10000ms exceeded")] }

\* The index in the node's attempts of the request that is in flight.
TonIndex(r) ==
    CHOOSE i \in 1..Len(TonAttempts(ctx[r].node)) : TonAttempts(ctx[r].node)[i] = calls[r][Len(calls[r])]

\* lastErr when the loops and the tonapi.io request are over (lines
\* 969-1029): the Error of the last doRest, or what the tonapi.io request threw.
TonLastErr(reply) ==
    IF reply.kind = "error" THEN reply.err
    ELSE Err(FALSE, 0, "", "toncenter REST attempts failed")

\* A request of fetchTonBalance settles (lines 969-1029).
TonReply(r, reply) ==
    /\ pc[r] = "ton"
    /\ LET plan == TonAttempts(ctx[r].node)
           i == TonIndex(r)
       IN  IF reply.kind = "balance"
           THEN Respond(r, ChainstackResponse(input[r],
                    Result(IF plan[i] = "tonapi" THEN "other" ELSE "chainstack", <<"3">>, FALSE)))
           ELSE IF i < Len(plan)
           THEN /\ calls' = [calls EXCEPT ![r] = Append(@, plan[i + 1])]
                /\ UNCHANGED <<pc, awaiting, scan, ctx, res, inFlightBtc>>
           ELSE /\ pc' = [pc EXCEPT ![r] = "done"]
                /\ ctx' = [ctx EXCEPT ![r] = [ctx[r] EXCEPT !.origin = "adapter", !.err = TonLastErr(reply)]]
                /\ res' = [res EXCEPT ![r] = CatchResponse(input[r], TonLastErr(reply))]
                /\ UNCHANGED <<calls, awaiting, scan, inFlightBtc>>
    /\ UNCHANGED <<apiKey, credentials, tokenCache, attempt, cachedNodes, nodesCacheExpiry, now, ticks, height, btcCache,
                   input, nodesNow>>

\* getbestblockhash answers the request running tryScanTxOutSet (lines 1310-1324).
TipReply(r, reply) ==
    /\ pc[r] = "tip"
    /\ LET got == getBestBlockHash(reply, Blocks[height])
           cached == btcCache[input[r].address]
       IN  IF ~got.ok
           THEN /\ scan' = [scan EXCEPT ![r] = Settled(FALSE, <<>>, FALSE, got.err)]
                /\ pc' = [pc EXCEPT ![r] = "await"]
                /\ UNCHANGED calls
           ELSE IF CacheHit(cached, got.tip, now)
           THEN /\ scan' = [scan EXCEPT ![r] = Settled(TRUE, cached.balance, TRUE, NoErr)]
                /\ pc' = [pc EXCEPT ![r] = "await"]
                /\ UNCHANGED calls
           ELSE /\ pc' = [pc EXCEPT ![r] = "scan"]
                /\ calls' = [calls EXCEPT ![r] = Append(@, "scan")]
                /\ UNCHANGED scan
    /\ UNCHANGED <<apiKey, credentials, tokenCache, attempt, cachedNodes, nodesCacheExpiry, now, ticks, height, btcCache,
                   inFlightBtc, input, nodesNow, awaiting, ctx, res>>

\* Mutant: a scan's result is stored under every address.
ScanReply_SharedEntry(r, reply) ==
    /\ pc[r] = "scan"
    /\ LET outcome == ScanOutcome(reply, Blocks[height])
       IN  /\ btcCache' =
                IF ScanStores(outcome)
                THEN [a \in BtcAddresses |->
                        [bestblock |-> outcome.bestblock, balance |-> outcome.balance, at |-> now]]
                ELSE btcCache
           /\ scan' = [scan EXCEPT ![r] = Settled(outcome.ok, outcome.balance, FALSE, outcome.err)]
    /\ pc' = [pc EXCEPT ![r] = "await"]
    /\ UNCHANGED <<apiKey, credentials, tokenCache, attempt, cachedNodes, nodesCacheExpiry, now, ticks, height,
                   inFlightBtc, input, nodesNow, calls, awaiting, ctx, res>>

\* scantxoutset answers (lines 1324-1362).
ScanReply(r, reply) ==
    /\ pc[r] = "scan"
    /\ LET outcome == ScanOutcome(reply, Blocks[height])
       IN  /\ btcCache' =
                IF ScanStores(outcome)
                THEN [btcCache EXCEPT ![input[r].address] =
                        [bestblock |-> outcome.bestblock, balance |-> outcome.balance, at |-> now]]
                ELSE btcCache
           /\ scan' = [scan EXCEPT ![r] = Settled(outcome.ok, outcome.balance, FALSE, outcome.err)]
    /\ pc' = [pc EXCEPT ![r] = "await"]
    /\ UNCHANGED <<apiKey, credentials, tokenCache, attempt, cachedNodes, nodesCacheExpiry, now, ticks, height,
                   inFlightBtc, input, nodesNow, calls, awaiting, ctx, res>>

\* The callback of .finally (line 1380) runs and p settles.
Finally(r) ==
    /\ scan[r].state = "settled"
    /\ inFlightBtc' =
          IF FinallyRuns(scan[r].ok)
          THEN [inFlightBtc EXCEPT ![input[r].address] = 0]
          ELSE inFlightBtc
    /\ scan' = [scan EXCEPT ![r].state = "done"]
    /\ UNCHANGED <<apiKey, credentials, tokenCache, attempt, cachedNodes, nodesCacheExpiry, now, ticks, height, btcCache,
                   input, pc, nodesNow, calls, awaiting, ctx, res>>

\* Mutant: a scan already in progress is reported without trying the alternates.
Resume_InProgressIsFinal(r) ==
    /\ pc[r] = "await"
    /\ scan[awaiting[r]].state = "done"
    /\ LET p == scan[awaiting[r]]
       IN  IF p.ok
           THEN Respond(r, ChainstackResponse(input[r], Result("chainstack", p.balance, p.cached)))
           ELSE IF p.err.code = "BTC_SCAN_IN_PROGRESS"
           THEN Respond(r, CatchResponse(input[r], p.err))
           ELSE StartFallback(r, "adapter", FallbackReason(p.err), p.err)
    /\ UNCHANGED <<apiKey, credentials, tokenCache, attempt, cachedNodes, nodesCacheExpiry, now, ticks, height, btcCache,
                   input, nodesNow>>

\* `await existing` / `await p` resumes (lines 1369-1391), and the handler
\* answers or starts the cascade (lines 1636-1650).
Resume(r) ==
    /\ pc[r] = "await"
    /\ scan[awaiting[r]].state = "done"
    /\ LET p == scan[awaiting[r]]
       IN  IF p.ok
           THEN Respond(r, ChainstackResponse(input[r], Result("chainstack", p.balance, p.cached)))
           ELSE StartFallback(r, "adapter", FallbackReason(p.err), p.err)
    /\ UNCHANGED <<apiKey, credentials, tokenCache, attempt, cachedNodes, nodesCacheExpiry, now, ticks, height, btcCache,
                   input, nodesNow>>

\* The provider of an explicit override settles (lines 1595-1605).
OverrideReply(r, reply) ==
    /\ pc[r] = "override"
    /\ reply \in RepliesOf(parseBalanceProvider(input[r].provider))
    /\ LET provider == parseBalanceProvider(input[r].provider)
           out == ProviderOutcome(reply)
       IN  IF out.kind = "result"
           THEN Respond(r, [sendBalanceResponse(input[r], Result(provider, out.balance, FALSE), "")
                               EXCEPT !.raw = out.raw])
           ELSE Respond(r, CatchResponse(input[r], out.err))
    /\ UNCHANGED <<apiKey, credentials, tokenCache, attempt, cachedNodes, nodesCacheExpiry, now, ticks, height, btcCache,
                   input, nodesNow>>

\* Mutant: the last alternate's error is surfaced.
Exhausted_LastError(in, c, lastErr) == CatchResponse(in, lastErr)

\* What ends a request whose alternates have all failed: `throw fetchErr`,
\* `throw err` (to the outer catch) or the 502 of lines 1629-1631. lastErr is
\* the error tryChainzFallback caught and logged.
Exhausted(in, c, lastErr) ==
    IF c.origin = "nonode"
    THEN TextResponse(in, 502, "No Chainstack node available for requested chain")
    ELSE CatchResponse(in, c.err)

\* Mutant: the first alternate's failure is not caught.
BlockstreamReply_Throws(r, reply) ==
    /\ pc[r] = "fallback1"
    /\ reply \in RepliesOf(CascadeOrder[1])
    /\ IF reply.kind = "result"
       THEN Respond(r, sendBalanceResponse(input[r], Result(CascadeOrder[1], <<"5","0","0","0","0","0","0","0">>, FALSE),
                                           ctx[r].reason))
       ELSE Respond(r, CatchResponse(input[r], reply.err))
    /\ UNCHANGED <<apiKey, credentials, tokenCache, attempt, cachedNodes, nodesCacheExpiry, now, ticks, height, btcCache,
                   input, nodesNow>>

\* tryBlockstreamFallback settles; on failure tryChainzFallback is called.
BlockstreamReply(r, reply) ==
    /\ pc[r] = "fallback1"
    /\ reply \in RepliesOf(CascadeOrder[1])
    /\ IF reply.kind = "result"
       THEN Respond(r, sendBalanceResponse(input[r], Result(CascadeOrder[1], <<"5","0","0","0","0","0","0","0">>, FALSE),
                                           ctx[r].reason))
       ELSE /\ pc' = [pc EXCEPT ![r] = "fallback2"]
            /\ calls' = [calls EXCEPT ![r] = Append(@, CascadeOrder[2])]
            /\ UNCHANGED <<awaiting, scan, ctx, res, inFlightBtc>>
    /\ UNCHANGED <<apiKey, credentials, tokenCache, attempt, cachedNodes, nodesCacheExpiry, now, ticks, height, btcCache,
                   input, nodesNow>>

\* tryChainzFallback settles.
ChainzReply(r, reply) ==
    /\ pc[r] = "fallback2"
    /\ reply \in RepliesOf(CascadeOrder[2])
    /\ IF ProviderOutcome(reply).kind = "result"
       THEN Respond(r, [sendBalanceResponse(input[r], Result(CascadeOrder[2], ProviderOutcome(reply).balance, FALSE),
                                            ctx[r].reason)
                           EXCEPT !.raw = ProviderOutcome(reply).raw])
       ELSE Respond(r, Exhausted(input[r], ctx[r], ProviderOutcome(reply).err))
    /\ UNCHANGED <<apiKey, credentials, tokenCache, attempt, cachedNodes, nodesCacheExpiry, now, ticks, height, btcCache,
                   input, nodesNow>>

\* Time passes: by one TTL less 1 ms, then by 1 ms, and so on, so that an
\* entry is looked up at ages just below the TTL and at the TTL. The clock
\* only matters once a cache holds something.
ClockStep(k) == IF k % 2 = 0 THEN BTC_CACHE_TTL_MS - 1 ELSE 1
Tick ==
    /\ ticks < MaxTicks
    /\ \E a \in BtcAddresses : btcCache[a] # Null
    /\ now' = now + ClockStep(ticks)
    /\ ticks' = ticks + 1
    /\ UNCHANGED <<apiKey, credentials, tokenCache, attempt, cachedNodes, nodesCacheExpiry, height, btcCache, inFlightBtc,
                   input, pc, nodesNow, calls, awaiting, scan, ctx, res>>

\* The Bitcoin network finds a block.
NewBlock ==
    /\ height < Len(Blocks)
    /\ height' = height + 1
    /\ UNCHANGED <<apiKey, credentials, tokenCache, attempt, cachedNodes, nodesCacheExpiry, now, ticks, btcCache, inFlightBtc,
                   input, pc, nodesNow, calls, awaiting, scan, ctx, res>>

\* A request that has been answered is over; its slot serves a later request.
Recycle(r) ==
    /\ pc[r] = "done"
    /\ input' = [input EXCEPT ![r] = NoInput]
    /\ pc' = [pc EXCEPT ![r] = "idle"]
    /\ calls' = [calls EXCEPT ![r] = <<>>]
    /\ ctx' = [ctx EXCEPT ![r] = NoCtx]
    /\ res' = [res EXCEPT ![r] = NoRes]
    /\ UNCHANGED <<apiKey, credentials, tokenCache, attempt, cachedNodes, nodesCacheExpiry, now, ticks, height, btcCache,
                   inFlightBtc, nodesNow, awaiting, scan>>

\* Time passes around the node list's expiry: to 1 ms before it, to it, past it.
DirClockStep(k) == IF k % MaxDirTicks = 0 THEN CHAINSTACK_NODE_CACHE_TTL_MS - 1 ELSE 1
DirTick ==
    /\ ticks < MaxDirTicks
    /\ cachedNodes.set
    /\ now' = now + DirClockStep(ticks)
    /\ ticks' = ticks + 1
    /\ UNCHANGED <<apiKey, credentials, tokenCache, attempt, cachedNodes, nodesCacheExpiry, height, btcCache, inFlightBtc,
                   input, pc, nodesNow, calls, awaiting, scan, ctx, res>>

\* Every request kind, every reply kind, MaxWide requests.
Next ==
    \/ \E r \in 1..MaxWide, in \in Inputs : r \in Req /\ Begin(r, in)
    \/ \E r \in Req, results \in ProvisionResults : NodesReply(r, results)
    \/ \E r \in Req : NodesError(r)
    \/ \E r \in Req, reply \in AdapterReplies : AdapterReply(r, reply)
    \/ \E r \in Req, reply \in TipReplies : TipReply(r, reply)
    \/ \E r \in Req, reply \in ScanReplies : ScanReply(r, reply)
    \/ \E r \in Req : Finally(r)
    \/ \E r \in Req : Resume(r)
    \/ \E r \in Req, reply \in RepliesOf("blockstream") : OverrideReply(r, reply)
    \/ \E r \in Req, reply \in RepliesOf("blockstream") : BlockstreamReply(r, reply)
    \/ \E r \in Req, reply \in ProviderReplies : ChainzReply(r, reply)
    \/ Tick
    \/ NewBlock

Spec == Init /\ [][Next]_vars

\* Concurrent Bitcoin lookups: NumReq requests for Bitcoin addresses through
\* the node path, with one reply of each kind that tryScanTxOutSet tells apart
\* by its control flow (a result, a failed tip fetch, a failed scan). The
\* handler never inspects a Bitcoin address, so the first request's address is
\* fixed without loss of generality.
ScanInputs == {Input(btc, AddrA, Undefined), Input(<<"B","T","C">>, AddrB, ArrayValue)}
ScanProvisionResults == {results \in ProvisionResults : selectNode(RunningNodes(results), btc) # 0
                                                         /\ \A i \in 1..Len(results) : results[i].https}
ScanTipReplies == {reply \in TipReplies :
                        \/ reply.kind = "result"
                        \/ reply.kind = "axios" /\ reply.status = 0}
ScanScanReplies == {reply \in ScanReplies :
                        \/ reply.kind = "result" /\ reply.amountType # "null"
                        \/ reply.kind = "rpcError" /\ reply.phrase = "method not found"}
ScanProviderReplies == {reply \in ProviderReplies :
                        \/ reply.kind = "result"
                        \/ reply.kind = "error" /\ ~reply.err.axios}

InitScan == Init /\ apiKey

NextScan ==
    \/ \E r \in Req, in \in ScanInputs : (r = 1 => in.address = AddrA) /\ Begin(r, in)
    \/ \E r \in Req, results \in ScanProvisionResults : NodesReply(r, results)
    \/ \E r \in Req, reply \in ScanTipReplies : TipReply(r, reply)
    \/ \E r \in Req, reply \in ScanScanReplies : ScanReply(r, reply)
    \/ \E r \in Req : Finally(r)
    \/ \E r \in Req : Resume(r)
    \/ \E r \in Req, reply \in ScanProviderReplies : BlockstreamReply(r, reply)
    \/ \E r \in Req, reply \in ScanProviderReplies : ChainzReply(r, reply)
    \/ Tick
    \/ NewBlock

ScanSpec == InitScan /\ [][NextScan]_vars

\* The microtask queue always drains: a settled tryScanTxOutSet runs its
\* finally callback, and a settled promise resumes its awaiters.
FairScanSpec ==
    /\ ScanSpec
    /\ \A r \in Req : WF_vars(Finally(r)) /\ WF_vars(Resume(r))

\* Whether the axios config of an outbound call of balance() sets `timeout`
\* (axios waits without limit when it is not set): the Bitcoin RPCs (line
\* 1290), the TON calls (lines 902, 940, 1007) and the alternate providers
\* (helper.ts lines 213, 251, 314) do; the node directory call (lines
\* 282-286) and the adapters that pass buildNodeAxiosConfig(node) as it is
\* (EVM, Solana, Tron, Aptos) do not.
HasTimeout(call, key) ==
    CASE call \in {"tip", "scan", "blockstream", "chainz"} -> TRUE
      [] call = "adapter" -> FALSE
      [] key = ton /\ call # "nodes" -> TRUE
      [] call = "nodes" -> FALSE
      [] OTHER -> FALSE

\* What the timeouts and the event loop guarantee: a call with a timeout
\* settles (with a reply or with the timeout's error), a settled promise runs
\* its callbacks and resumes its awaiters. A call without a timeout settles
\* only if the upstream replies.
TimeoutSpec ==
    /\ Spec
    /\ \A r \in Req :
          /\ WF_vars(Finally(r)) /\ WF_vars(Resume(r))
          /\ WF_vars(HasTimeout("tip", btc) /\ \E reply \in TipReplies : TipReply(r, reply))
          /\ WF_vars(HasTimeout("scan", btc) /\ \E reply \in ScanReplies : ScanReply(r, reply))
          /\ WF_vars(HasTimeout(parseBalanceProvider(input[r].provider), btc)
                     /\ \E reply \in ProviderReplies : OverrideReply(r, reply))
          /\ WF_vars(HasTimeout("blockstream", btc)
                     /\ \E reply \in ProviderReplies : BlockstreamReply(r, reply))
          /\ WF_vars(HasTimeout("chainz", btc)
                     /\ \E reply \in ProviderReplies : ChainzReply(r, reply))
          /\ WF_vars(HasTimeout("adapter", normalizedChain(input[r]))
                     /\ \E reply \in AdapterReplies : AdapterReply(r, reply))
          /\ WF_vars(HasTimeout("nodes", normalizedChain(input[r]))
                     /\ (NodesError(r) \/ \E results \in ProvisionResults : NodesReply(r, results)))

\* ------------------------------------------------------------- broadcast
\* Values of a JSON body member: undefined, a string, an array of numbers,
\* anything else (a number, an object, null).
NumbersValue(numbers) == [type |-> "numbers", numbers |-> numbers]
OtherValue == [type |-> "other"]

\* req.body: not an object (no body was parsed), or an object with the three
\* members extractSignedPayload reads.
NoBody == [type |-> "undefined"]
Body(signedPayload, rawTransaction, payload) ==
    [type |-> "object", signedPayload |-> signedPayload,
     rawTransaction |-> rawTransaction, payload |-> payload]

extractSignedPayload(body) ==
    IF body.type # "object" THEN Undefined
    ELSE IF body.signedPayload.type # "undefined" THEN body.signedPayload
    ELSE IF body.rawTransaction.type # "undefined" THEN body.rawTransaction
    ELSE body.payload

\* coercePayloadBuffer from a JSON value: the bytes of an array of integers
\* in 0..255, null (Null) for a string and for anything else.
coercePayloadBuffer(value) ==
    IF value.type = "numbers" /\ \A i \in 1..Len(value.numbers) : value.numbers[i] \in 0..255
    THEN [type |-> "buffer", bytes |-> value.numbers]
    ELSE Null

\* buffer.toString("hex")
HexChar(d) == <<"0","1","2","3","4","5","6","7","8","9","a","b","c","d","e","f">>[d + 1]
RECURSIVE HexOfBytes(_)
HexOfBytes(bytes) ==
    IF bytes = <<>> THEN <<>>
    ELSE <<HexChar(bytes[1] \div 16), HexChar(bytes[1] % 16)>> \o HexOfBytes(Tail(bytes))

normalizeHexPayload(value) ==
    LET trimmed == IF value.type = "string" THEN trim(value.text) ELSE <<>>
        hexFromString == IF StartsWith0x(trimmed) THEN SubSeq(trimmed, 3, Len(trimmed)) ELSE trimmed
        buffer == coercePayloadBuffer(value)
        hexFromBuffer == IF buffer # Null THEN HexOfBytes(buffer.bytes) ELSE <<>>
        normalized == IF hexFromString # <<>> THEN hexFromString ELSE hexFromBuffer
    IN  IF normalized = <<>>
        THEN Thrown("Signed payload must be a hex-encoded string or byte array")
        ELSE IF (\E i \in 1..Len(normalized) : normalized[i] \notin HexDigits)
                \/ Len(normalized) % 2 # 0
        THEN Thrown("Signed payload must be a hex-encoded string")
        ELSE Returned(<<"0", "x">> \o normalized)

\* normalizeHexPayload(value).slice(2)
normalizeBitcoinPayload(value) ==
    LET hex == normalizeHexPayload(value)
    IN  IF hex.ok THEN Returned(SubSeq(hex.value.text, 3, Len(hex.value.text))) ELSE hex

\* The base64 alphabet in value order; Buffer.from(text, "base64") also reads
\* "-" and "_" (the URL-safe alphabet).
Base64Alphabet ==
    <<"A","B","C","D","E","F","G","H","I","J","K","L","M","N","O","P","Q","R","S","T","U","V",
      "W","X","Y","Z","a","b","c","d","e","f","g","h","i","j","k","l","m","n","o","p","q","r",
      "s","t","u","v","w","x","y","z","0","1","2","3","4","5","6","7","8","9","+","/">>
Base64Chars == {Base64Alphabet[i] : i \in 1..64} \cup {"-", "_"}

\* Buffer.from(text, "base64").length: the decoder reads up to the first "=",
\* passes over every character outside the alphabet and never throws; each
\* character read carries 6 bits.
RECURSIVE UpToPadding(_)
UpToPadding(s) ==
    IF s = <<>> \/ s[1] = "=" THEN <<>> ELSE <<s[1]>> \o UpToPadding(Tail(s))
Base64DecodedLength(text) ==
    (6 * Len(SelectSeq(UpToPadding(text), LAMBDA c : c \in Base64Chars))) \div 8

\* buffer.toString("base64")
RECURSIVE Base64OfBytes(_)
Base64OfBytes(bytes) ==
    LET c(i) == Base64Alphabet[i + 1]
    IN  IF bytes = <<>> THEN <<>>
        ELSE IF Len(bytes) = 1
        THEN <<c(bytes[1] \div 4), c((bytes[1] % 4) * 16), "=", "=">>
        ELSE IF Len(bytes) = 2
        THEN <<c(bytes[1] \div 4), c((bytes[1] % 4) * 16 + bytes[2] \div 16),
               c((bytes[2] % 16) * 4), "=">>
        ELSE <<c(bytes[1] \div 4), c((bytes[1] % 4) * 16 + bytes[2] \div 16),
               c((bytes[2] % 16) * 4 + bytes[3] \div 64), c(bytes[3] % 64)>>
             \o Base64OfBytes(SubSeq(bytes, 4, Len(bytes)))

normalizeBase64Payload(value) ==
    LET trimmed == IF value.type = "string" THEN trim(value.text) ELSE <<>>
        buffer == coercePayloadBuffer(value)
    IN  IF trimmed = <<>> /\ buffer = Null
        THEN Thrown("Signed payload must be a base64 string or byte array")
        ELSE IF buffer # Null
        THEN IF buffer.bytes = <<>>
             THEN Thrown("Signed payload must not be empty")
             ELSE Returned(Base64OfBytes(buffer.bytes))
        ELSE IF Base64DecodedLength(trimmed) = 0
        THEN Thrown("Signed payload must be valid base64")
        ELSE Returned(trimmed)

\* Lines 1473-1499: the chains with a broadcast adapter.
BroadcastHandlerKeys == {btc, eth, bnb, tron, sol}

\* CHAIN_BROADCAST_HANDLERS[key], an object literal like CHAIN_HANDLERS.
CHAIN_BROADCAST_HANDLERS(key) ==
    IF key \in BroadcastHandlerKeys THEN "own"
    ELSE IF key \in ObjectPrototypeKeys THEN "inherited"
    ELSE "undefined"

\* handler.normalizePayload(signedPayload)
normalizePayload(key, value) ==
    IF key = btc THEN normalizeBitcoinPayload(value)
    ELSE IF key = sol THEN normalizeBase64Payload(value)
    ELSE normalizeHexPayload(value)

\* A broadcast request: POST /broadcast/:chain with a JSON body.
BroadcastInput(chain, body) == [chain |-> chain, body |-> body]

\* Responses of broadcast(): res.status(..).send(text), .json({error}), the
\* upstream's status and body, and the 200 with x-provider chainstack.
BroadcastText(status, text) ==
    [NoRes EXCEPT !.status = status, !.body = "text", !.message = text]
BroadcastError(status, message) ==
    [NoRes EXCEPT !.status = status, !.body = "error", !.message = message]
BroadcastCatchResponse(err) ==
    IF err.axios /\ err.status # 0
    THEN [NoRes EXCEPT !.status = err.status, !.body = "upstream"]
    ELSE BroadcastError(502, err.message)
BroadcastResponse ==
    [NoRes EXCEPT !.status = 200, !.body = "broadcast", !.xProvider = "chainstack",
                  !.provider = "chainstack"]

\* broadcast() from the node list on (lines 1720-1729), up to the
\* submission's axios.post.
BroadcastWithNodes(r, in, nodes) ==
    LET key == toLowerCase(in.chain)
        n == selectNode(nodes, key)
    IN  IF CHAIN_BROADCAST_HANDLERS(key) = "inherited"
        THEN Respond(r, BroadcastCatchResponse(
                            Err(FALSE, 0, "", "handler.selectNode is not a function")))
        ELSE IF n = 0
        THEN Respond(r, BroadcastText(502, "No Chainstack node available for requested chain"))
        ELSE IF ~nodes[n].https
        THEN Respond(r, BroadcastCatchResponse(
                            Err(FALSE, 0, "", "Node does not expose an HTTPS endpoint")))
        ELSE /\ pc' = [pc EXCEPT ![r] = "submit"]
             /\ calls' = [calls EXCEPT ![r] = Append(@, "submit")]
             /\ UNCHANGED <<awaiting, scan, ctx, res, inFlightBtc>>

\* A broadcast request arrives: broadcast() up to its first suspension.
BroadcastBegin(r, in) ==
    /\ pc[r] = "idle"
    /\ \A q \in 1..(r - 1) : pc[q] # "idle"
    /\ input' = [input EXCEPT ![r] = in]
    /\ UNCHANGED <<apiKey, credentials, tokenCache, attempt, cachedNodes, nodesCacheExpiry, now, ticks, height, btcCache>>
    /\ LET key == toLowerCase(in.chain)
           signedPayload == extractSignedPayload(in.body)
           normalized == IF CHAIN_BROADCAST_HANDLERS(key) = "own"
                         THEN normalizePayload(key, signedPayload)
                         ELSE [ok |-> TRUE, value |-> signedPayload, message |-> ""]
       IN  IF in.chain = <<>>
           THEN Respond(r, BroadcastText(400, "Missing chain parameter")) /\ UNCHANGED nodesNow
           ELSE IF ~CHAIN_PARAM_REGEX(in.chain)
           THEN Respond(r, BroadcastText(400, "Invalid chain parameter")) /\ UNCHANGED nodesNow
           ELSE IF CHAIN_BROADCAST_HANDLERS(key) = "undefined"
           THEN Respond(r, BroadcastText(400, "Unsupported chain for broadcast"))
                /\ UNCHANGED nodesNow
           ELSE IF signedPayload.type = "undefined"
           THEN Respond(r, BroadcastText(400, "Missing signed payload")) /\ UNCHANGED nodesNow
           ELSE IF ~normalized.ok
           THEN Respond(r, BroadcastError(400, normalized.message)) /\ UNCHANGED nodesNow
           ELSE IF normalized.value.type # "string"
           THEN Respond(r, BroadcastError(400, "Signed payload must be a string"))
                /\ UNCHANGED nodesNow
           ELSE IF ~apiKey
           THEN /\ Respond(r, BroadcastCatchResponse(
                                 Err(FALSE, 0, "", "Chainstack API key is not configured")))
                /\ UNCHANGED nodesNow
           ELSE IF NodesCacheValid(now)
           THEN BroadcastWithNodes(r, in, cachedNodes.nodes) /\ UNCHANGED nodesNow
           ELSE /\ pc' = [pc EXCEPT ![r] = "bnodes"]
                /\ calls' = [calls EXCEPT ![r] = Append(@, "nodes")]
                /\ nodesNow' = [nodesNow EXCEPT ![r] = now]
                /\ UNCHANGED <<awaiting, scan, ctx, res, inFlightBtc>>

\* The provisioning service answers the fetchChainstackNodes of a broadcast.
BroadcastNodesReply(r, results) ==
    /\ pc[r] = "bnodes"
    /\ cachedNodes' = [set |-> TRUE, nodes |-> RunningNodes(results)]
    /\ nodesCacheExpiry' = nodesNow[r] + CHAINSTACK_NODE_CACHE_TTL_MS
    /\ BroadcastWithNodes(r, input[r], RunningNodes(results))
    /\ nodesNow' = [nodesNow EXCEPT ![r] = 0]
    /\ UNCHANGED <<apiKey, credentials, tokenCache, attempt, now, ticks, height, btcCache, input>>

BroadcastNodesError(r) ==
    /\ pc[r] = "bnodes"
    /\ Respond(r, BroadcastCatchResponse(Err(FALSE, 0, "", "Unable to fetch Chainstack nodes")))
    /\ nodesNow' = [nodesNow EXCEPT ![r] = 0]
    /\ UNCHANGED <<apiKey, credentials, tokenCache, attempt, cachedNodes, nodesCacheExpiry, now, ticks, height, btcCache, input>>

\* Outcomes of the submission's axios.post: a result, a JSON-RPC error, an
\* HTTP error, a timeout or connection failure without a response.
SubmitReplies ==
    { [kind |-> "result"],
      [kind |-> "error", err |-> Err(FALSE, 0, "", "EVM broadcast failed")],
      [kind |-> "error", err |-> Err(TRUE, 500, "ERR_BAD_RESPONSE", "Request failed with status code 500")],
      [kind |-> "error", err |-> Err(TRUE, 0, "ECONNABORTED", "timeout of 15000ms exceeded")] }

\* Mutant: a submission that timed out is sent again.
SubmitReply_RetriesTimeout(r, reply) ==
    /\ pc[r] = "submit"
    /\ IF reply.kind = "result"
       THEN Respond(r, BroadcastResponse)
       ELSE IF reply.err.code = "ECONNABORTED" /\ Len(calls[r]) < 4
       THEN /\ calls' = [calls EXCEPT ![r] = Append(@, "submit")]
            /\ UNCHANGED <<pc, awaiting, scan, ctx, res, inFlightBtc>>
       ELSE Respond(r, BroadcastCatchResponse(reply.err))
    /\ UNCHANGED <<apiKey, credentials, tokenCache, attempt, cachedNodes, nodesCacheExpiry, now, ticks, height, btcCache,
                   input, nodesNow>>

\* handler.broadcast settles (lines 1729-1750).
SubmitReply(r, reply) ==
    /\ pc[r] = "submit"
    /\ IF reply.kind = "result"
       THEN Respond(r, BroadcastResponse)
       ELSE Respond(r, BroadcastCatchResponse(reply.err))
    /\ UNCHANGED <<apiKey, credentials, tokenCache, attempt, cachedNodes, nodesCacheExpiry, now, ticks, height, btcCache,
                   input, nodesNow>>

Hex(s) == StringValue(s)
BroadcastInputs ==
    { BroadcastInput(eth, Body(Hex(<<"0","x","a","b","C","D">>), Undefined, Undefined)),
      BroadcastInput(<<"E","T","H">>, Body(Undefined, Hex(<<" ","a","b","c","d"," ">>), Undefined)),
      BroadcastInput(btc, Body(Undefined, Undefined, NumbersValue(<<1, 255>>))),
      BroadcastInput(tron, Body(Hex(<<"0","x","a","b","c">>), Undefined, Undefined)),
      BroadcastInput(bnb, Body(Hex(<<"0","x","z","z">>), Undefined, Undefined)),
      BroadcastInput(eth, Body(OtherValue, Hex(<<"a","b">>), Undefined)),
      BroadcastInput(eth, Body(Undefined, Undefined, Undefined)),
      BroadcastInput(eth, NoBody),
      BroadcastInput(sol, Body(Hex(<<"Q","U","J","D">>), Undefined, Undefined)),
      BroadcastInput(sol, Body(Hex(<<"a","b","!","c">>), Undefined, Undefined)),
      BroadcastInput(sol, Body(Hex(<<"!","!","!">>), Undefined, Undefined)),
      BroadcastInput(sol, Body(Hex(<<" "," ">>), Undefined, Undefined)),
      BroadcastInput(sol, Body(NumbersValue(<<>>), Undefined, Undefined)),
      BroadcastInput(apt, Body(Hex(<<"0","x","a","b">>), Undefined, Undefined)),
      BroadcastInput(<<"c","o","n","s","t","r","u","c","t","o","r">>,
                     Body(Hex(<<"0","x","a","b">>), Undefined, Undefined)),
      BroadcastInput(<<"c","o","n","s","t","r","u","c","t","o","r">>,
                     Body(OtherValue, Undefined, Undefined)),
      BroadcastInput(<<"b","_","c">>, Body(Hex(<<"0","x","a","b">>), Undefined, Undefined)),
      BroadcastInput(<<>>, Body(Hex(<<"0","x","a","b">>), Undefined, Undefined)) }

NextBroadcast ==
    \/ \E r \in Req, in \in BroadcastInputs : BroadcastBegin(r, in)
    \/ \E r \in Req, results \in ProvisionResults : BroadcastNodesReply(r, results)
    \/ \E r \in Req : BroadcastNodesError(r)
    \/ \E r \in Req, reply \in SubmitReplies : SubmitReply(r, reply)

BroadcastSpec == Init /\ [][NextBroadcast]_vars

\* The node directory over time: requests for chains served by a node adapter
\* come and go while the clock passes the list's expiry.
DirInputs == {Input(eth, EvmGood, Undefined), Input(sol, AddrA, Undefined)}
DirAdapterReplies == {reply \in AdapterReplies : reply.kind = "result" \/ reply.err.status = 404}

NextDir ==
    \/ \E r \in Req, in \in DirInputs : Begin(r, in)
    \/ \E r \in Req, results \in ProvisionResults : NodesReply(r, results)
    \/ \E r \in Req : NodesError(r)
    \/ \E r \in Req, reply \in DirAdapterReplies : AdapterReply(r, reply)
    \/ \E r \in Req : Recycle(r)
    \/ DirTick

DirSpec == Init /\ [][NextDir]_vars

\* ------------------------------------------------------ adapter requests
\* Requests for the chains whose adapter does more than one call or looks at
\* the address itself (Tron, Aptos), over a node list that has their nodes.
AptGood == <<"0","x","0","1">>
AptLong == <<"0","x">> \o [i \in 1..66 |-> IF i = 1 THEN "1" ELSE "a"]
AptZeros == <<"0","x","0","0">> \o [i \in 1..64 |-> "B"]

AdapterInputs ==
    { Input(tron, TronGood, Undefined), Input(tron, TronBadChar, Undefined),
      Input(tron, TronBadSum, Undefined), Input(tron, TronHex, Undefined),
      Input(apt, AptGood, Undefined), Input(apt, AptLong, Undefined),
      Input(apt, AptZeros, Undefined), Input(apt, AptOdd, Undefined),
      Input(ton, AddrA, Undefined) }

AdapterProvisionResults ==
    { << Node("n6", "running", "tron", TRUE), Node("n7", "running", "aptos", TRUE),
         TonNode("n8", "running", "plain", "plain") >>,
      << TonNode("n9", "stopped", "plain", "plain"), Node("n7", "running", "aptos", TRUE),
         TonNode("n10", "running", "none", "plain"), TonNode("n8", "running", "plain", "plain"),
         Node("n12", "running", "aptos", TRUE) >>,
      << Node("n13", "stopped", "tron", TRUE), Node("n6", "running", "tron", TRUE),
         TonNode("n11", "running", "jsonrpc", "none"), Node("n14", "running", "tron", TRUE) >>,
      << Node("n2", "running", "ethereum", TRUE) >> }

NextAdapter ==
    \/ \E r \in 1..MaxWide, in \in AdapterInputs : r \in Req /\ Begin(r, in)
    \/ \E r \in Req, results \in AdapterProvisionResults : NodesReply(r, results)
    \/ \E r \in Req : NodesError(r)
    \/ \E r \in Req, reply \in AdapterReplies : AdapterReply(r, reply)
    \/ \E r \in Req, reply \in ViewReplies : ViewReply(r, reply)
    \/ \E r \in Req, reply \in TonReplies : TonReply(r, reply)
    \/ \E r \in Req : Recycle(r)

AdapterSpec == Init /\ [][NextAdapter]_vars

\* ---------------------------------------------------- hexadecimal answers
\* EVM and Tron requests whose node answers eth_getBalance with any of a set
\* of result members: every text of up to MaxHexLen characters of HexSample,
\* with and without the 0x prefix, some long ones, and a member that is no
\* string.
HexSample == {"0", "1", "a", "F", "g"}
HexLong ==
    { <<"1">> \o [i \in 1..16 |-> "0"],
      [i \in 1..20 |-> "f"],
      <<"0","0","0">> \o [i \in 1..18 |-> IF i % 2 = 0 THEN "9" ELSE "E"],
      [i \in 1..17 |-> IF i = 17 THEN "g" ELSE "f"] }
HexTexts == UNION {[1..n -> HexSample] : n \in 0..MaxHexLen} \cup HexLong
HexReplies ==
    {[kind |-> "result", result |-> StringValue(<<"0","x">> \o h)] : h \in HexTexts}
    \cup {[kind |-> "result", result |-> StringValue(h)] : h \in HexTexts}
    \cup {[kind |-> "result", result |-> Null]}

HexInputs == {Input(eth, EvmGood, Undefined), Input(tron, TronHex, Undefined)}
HexProvisionResults ==
    { << Node("n2", "running", "ethereum", TRUE), Node("n6", "running", "tron", TRUE) >> }

NextHex ==
    \/ \E r \in 1..MaxWide, in \in HexInputs : r \in Req /\ Begin(r, in)
    \/ \E r \in Req, results \in HexProvisionResults : NodesReply(r, results)
    \/ \E r \in Req, reply \in HexReplies : AdapterReply(r, reply)

HexSpec == Init /\ [][NextHex]_vars

\* ---------------------------------------------------------- Chainz answers
\* Bitcoin requests that Chainz answers, asked for by name or as the last
\* alternate, over the body texts of ChainzTexts.
ChainzInputs ==
    { Input(btc, AddrA, StringValue(<<"c","h","a","i","n","z">>)),
      Input(btc, AddrB, Undefined) }

NextChainz ==
    \/ \E r \in 1..MaxWide, in \in ChainzInputs : r \in Req /\ Begin(r, in)
    \/ \E r \in Req : NodesError(r)
    \/ \E r \in Req : BlockstreamReply(r, BlockstreamUnconfigured)
    \/ \E r \in Req, reply \in ChainzTextReplies : OverrideReply(r, reply)
    \/ \E r \in Req, reply \in ChainzTextReplies : ChainzReply(r, reply)

ChainzSpec == Init /\ [][NextChainz]_vars

\* ------------------------------------------------------- provider fetches
\* fetchBlockstreamBalance and fetchChainzBalance call by call: NumReq calls
\* of them run side by side and share the token cache. Every upstream call
\* sets an axios timeout (helper.ts lines 217, 251, 314), so each is answered
\* or fails.
Settle(a, outcome) == [a EXCEPT !.pc = "settled", !.outcome = outcome]
Issue(a, call) == [a EXCEPT !.pc = call, !.events = Append(@, call)]
Log(a, event) == [a EXCEPT !.events = Append(@, event)]

\* getBlockstreamAccessToken up to its axios.post (helper.ts lines 191-217)
\* and, when the token is cached, the attempt it is awaited for up to its
\* axios.get (lines 246-253). cached is what cache.get returns.
getBlockstreamAccessToken(r, a, cached) ==
    IF cached
    THEN attempt' = [attempt EXCEPT ![r] = Issue(a, "address")]
    ELSE IF ~credentials
    THEN attempt' = [attempt EXCEPT ![r] = Settle(a, "Blockstream credentials are not configured")]
    ELSE attempt' = [attempt EXCEPT ![r] = Issue(a, "token")]

\* fetchBlockstreamBalance(chain, address) is called (lines 242-244, 292-293).
FetchBlockstream(r, chain) ==
    /\ attempt[r].pc = "idle"
    /\ IF chain # btc
       THEN attempt' = [attempt EXCEPT ![r] =
                Settle([NoAttempt EXCEPT !.fn = "blockstream"], "Blockstream balance fetcher only supports BTC")]
       ELSE getBlockstreamAccessToken(r, [NoAttempt EXCEPT !.fn = "blockstream", !.allowRetry = TRUE],
                                      tokenCache)
    /\ UNCHANGED <<apiKey, credentials, tokenCache, cachedNodes, nodesCacheExpiry, now, ticks,
                   height, btcCache, inFlightBtc, input, pc, nodesNow, calls, awaiting, scan,
                   ctx, res>>

\* The token endpoint answers (lines 219-235): "ok" with an access_token,
\* "missing" without one, "error" for a timeout or a status outside 2xx.
TokenAnswers == {"ok", "missing", "error"}
TokenReply(r, answer) ==
    /\ attempt[r].pc = "token"
    /\ IF answer = "ok"
       THEN /\ tokenCache' = TRUE
            /\ attempt' = [attempt EXCEPT ![r] = Issue(Log(Log(@, "ok"), "set"), "address")]
       ELSE /\ attempt' = [attempt EXCEPT ![r] =
                    Settle(Log(@, answer),
                           IF answer = "missing"
                           THEN "Blockstream token response missing access_token"
                           ELSE "Request failed")]
            /\ UNCHANGED tokenCache
    /\ UNCHANGED <<apiKey, credentials, cachedNodes, nodesCacheExpiry, now, ticks,
                   height, btcCache, inFlightBtc, input, pc, nodesNow, calls, awaiting, scan,
                   ctx, res>>

\* Statuses of the address endpoint; 0 stands for a timeout, a network error
\* or a status from 500 on, which validateStatus (line 252) lets axios throw.
AddressStatuses == {200, 401, 404, 0}
StatusText(status) ==
    CASE status = 200 -> "200" [] status = 401 -> "401" [] status = 404 -> "404" [] OTHER -> "error"

\* Mutant: the re-issued request may itself be re-issued once more.
AddressReply_RetriesAgain(r, status) ==
    /\ attempt[r].pc = "address"
    /\ IF status = 401 /\ Len(SelectSeq(attempt[r].events, LAMBDA e : e = "address")) < 3
       THEN /\ tokenCache' = FALSE
            /\ getBlockstreamAccessToken(r, Log(Log(attempt[r], "401"), "del"), FALSE)
       ELSE /\ attempt' = [attempt EXCEPT ![r] =
                    Settle(Log(@, StatusText(status)),
                           IF status = 0 THEN "Request failed"
                           ELSE IF status # 200 THEN "Blockstream API error"
                           ELSE "result")]
            /\ UNCHANGED tokenCache
    /\ UNCHANGED <<apiKey, credentials, cachedNodes, nodesCacheExpiry, now, ticks,
                   height, btcCache, inFlightBtc, input, pc, nodesNow, calls, awaiting, scan,
                   ctx, res>>

\* The address endpoint answers attempt(token, allowRetry) (lines 255-290).
AddressReply(r, status) ==
    /\ attempt[r].pc = "address"
    /\ IF status = 401 /\ attempt[r].allowRetry
       THEN \* cache.del, then getBlockstreamAccessToken and attempt(refreshedToken, false)
            /\ tokenCache' = FALSE
            /\ getBlockstreamAccessToken(r, [Log(Log(attempt[r], "401"), "del") EXCEPT !.allowRetry = FALSE],
                                         FALSE)
       ELSE /\ attempt' = [attempt EXCEPT ![r] =
                    Settle(Log(@, StatusText(status)),
                           IF status = 0 THEN "Request failed"
                           ELSE IF status # 200 THEN "Blockstream API error"
                           ELSE "result")]
            /\ UNCHANGED tokenCache
    /\ UNCHANGED <<apiKey, credentials, cachedNodes, nodesCacheExpiry, now, ticks,
                   height, btcCache, inFlightBtc, input, pc, nodesNow, calls, awaiting, scan,
                   ctx, res>>

\* The cached token's ttl (line 234) runs out.
TokenExpires ==
    /\ tokenCache
    /\ tokenCache' = FALSE
    /\ UNCHANGED <<apiKey, credentials, attempt, cachedNodes, nodesCacheExpiry, now, ticks,
                   height, btcCache, inFlightBtc, input, pc, nodesNow, calls, awaiting, scan,
                   ctx, res>>

\* fetchChainzBalance(chain, address) is called (lines 300-301, 346-347).
FetchChainz(r, chain) ==
    /\ attempt[r].pc = "idle"
    /\ attempt' = [attempt EXCEPT ![r] =
            IF chain # btc
            THEN Settle([NoAttempt EXCEPT !.fn = "chainz"], "Requested chain is not supported by Chainz provider")
            ELSE Issue([NoAttempt EXCEPT !.fn = "chainz"], "getbalance")]
    /\ UNCHANGED <<apiKey, credentials, tokenCache, cachedNodes, nodesCacheExpiry, now, ticks,
                   height, btcCache, inFlightBtc, input, pc, nodesNow, calls, awaiting, scan,
                   ctx, res>>

\* Answers to a Chainz query: a body text, or a timeout, a network error or a
\* status from 500 on.
QueryAnswers ==
    { [kind |-> "text", text |-> <<"1",".","5">>],
      [kind |-> "text", text |-> <<>>],
      [kind |-> "text", text |-> <<"<","h","t","m","l",">">>],
      [kind |-> "text", text |-> <<"N","a","N">>],
      [kind |-> "text", text |-> <<"1","e","-","9">>],
      [kind |-> "error", err |-> Err(TRUE, 0, "ECONNABORTED", "timeout of 8000ms exceeded")] }

\* Whether attempt(queryName) returns on an answer (lines 312-343).
QueryReturns(answer) == answer.kind = "text" /\ ChainzAttempt(answer.text).ok

\* A Chainz query is answered (lines 345-351).
QueryReply(r, answer) ==
    /\ attempt[r].pc \in {"getbalance", "addressbalance"}
    /\ attempt' = [attempt EXCEPT ![r] =
            IF QueryReturns(answer) THEN Settle(Log(@, "returned"), "result")
            ELSE IF @.pc = "getbalance" THEN Issue(Log(@, "failed"), "addressbalance")
            ELSE Settle(Log(@, "failed"), ProviderOutcome(answer).err.message)]
    /\ UNCHANGED <<apiKey, credentials, tokenCache, cachedNodes, nodesCacheExpiry, now, ticks,
                   height, btcCache, inFlightBtc, input, pc, nodesNow, calls, awaiting, scan,
                   ctx, res>>

InitFetch == Constructed /\ apiKey /\ credentials \in BOOLEAN

NextFetch ==
    \/ \E r \in Req, chain \in {btc, eth} : FetchBlockstream(r, chain)
    \/ \E r \in Req, answer \in TokenAnswers : TokenReply(r, answer)
    \/ \E r \in Req, status \in AddressStatuses : AddressReply(r, status)
    \/ TokenExpires
    \/ \E r \in Req, chain \in {btc, eth} : FetchChainz(r, chain)
    \/ \E r \in Req, answer \in QueryAnswers : QueryReply(r, answer)

FetchSpec == InitFetch /\ [][NextFetch]_vars

\* Every upstream call is answered or times out.
FairFetchSpec ==
    /\ FetchSpec
    /\ \A r \in Req :
          /\ WF_vars(\E answer \in TokenAnswers : TokenReply(r, answer))
          /\ WF_vars(\E status \in AddressStatuses : AddressReply(r, status))
          /\ WF_vars(\E answer \in QueryAnswers : QueryReply(r, answer))

\* ------------------------------------------------------- Aptos addresses
\* Aptos requests over address texts: every text of HexTexts with and without
\* the 0x prefix, full-length and over-long ones, and ones a client may send
\* with other characters.
AptFull == <<"0","x">> \o [i \in 1..64 |-> IF i % 2 = 0 THEN "c" ELSE "D"]
AptSpaced == <<" ","0","x","0","1"," ">>
AptUpperPrefix == <<"0","X","0","1">>
AptAddresses ==
    {<<"0","x">> \o h : h \in HexTexts} \cup (HexTexts \ {<<>>})
        \cup {AptGood, AptOdd, AptLong, AptZeros, AptFull, AptSpaced, AptUpperPrefix}
AptProvisionResults == { << Node("n7", "running", "aptos", TRUE) >> }

NextApt ==
    \/ \E r \in 1..MaxWide, a \in AptAddresses : r \in Req /\ Begin(r, Input(apt, a, Undefined))
    \/ \E r \in Req, results \in AptProvisionResults : NodesReply(r, results)
    \/ \E r \in Req, reply \in AdapterReplies : AdapterReply(r, reply)
    \/ \E r \in Req, reply \in ViewReplies : ViewReply(r, reply)

AptSpec == Init /\ [][NextApt]_vars

\* ================================================================ claims
\* Helpers of the formulas.
Count(seq, x) == Cardinality({i \in 1..Len(seq) : seq[i] = x})
Began(r) == pc[r] # "idle"
IsBtc(r) == Began(r) /\ normalizedChain(input[r]) = btc
\* Request r runs tryScanTxOutSet and it has not settled.
Scanning(r) == scan[r].state = "pending"
\* Request r awaits the promise of another request.
Joined(r) == awaiting[r] # 0 /\ awaiting[r] # r

\* C1: at most one scan (a tryScanTxOutSet run, from its tip fetch to the
\* answer of scantxoutset) is outstanding per address in every reachable
\* state, and it is the one the in-flight map registers.
C1_OneScanPerAddress ==
    \A a \in BtcAddresses :
        /\ Cardinality({r \in Req : Scanning(r) /\ input[r].address = a}) <= 1
        /\ \A r \in Req : Scanning(r) /\ input[r].address = a => inFlightBtc[a] = r

\* Two requests for one address: the scantxoutset call of one is outstanding
\* and the other awaits it.
C1_Witness ==
    \E r, q \in Req :
        /\ r # q /\ input[r].address = input[q].address
        /\ pc[r] = "scan" /\ pc[q] = "await" /\ awaiting[q] = r

\* C2: a fetchBitcoinBalance call that begins while a scan for its address is
\* unsettled issues no call of its own and awaits that scan; a scan issues at
\* most one scantxoutset call, exactly one once it is past its tip fetch and
\* the cache check; and every request that awaited a scan has its outcome: the
\* same balance, or the same error to hand to the cascade.
C2_JoinStep ==
    \A r, q \in Req :
        (/\ r # q
         /\ pc[r] \in {"idle", "nodes"} /\ pc'[r] \in {"tip", "await"}
         /\ Scanning(q) /\ input[q].address = input'[r].address)
        => (pc'[r] = "await" /\ awaiting'[r] = q /\ calls'[r] = calls[r])
C2_SameOutcome ==
    \A r \in Req :
        awaiting[r] # 0 =>
            LET p == scan[awaiting[r]]
            IN  /\ Count(calls[awaiting[r]], "scan") <= 1
                /\ Joined(r) => Count(calls[r], "scan") = 0 /\ Count(calls[r], "tip") = 0
                /\ pc[awaiting[r]] = "scan" => Count(calls[awaiting[r]], "scan") = 1
                /\ p.state \in {"settled", "done"} /\ ~p.cached /\ p.err.code # "BTC_TIP_TIMEOUT"
                      /\ (p.ok \/ p.err.code \in {"BTC_SCAN_UNAVAILABLE", "BTC_SCAN_IN_PROGRESS",
                                                  "BTC_SCAN_FAILED", "BTC_INVALID_RESPONSE"})
                      => Count(calls[awaiting[r]], "scan") = 1
                /\ pc[r] \in {"fallback1", "fallback2", "done"} =>
                      /\ p.state = "done"
                      /\ p.ok => /\ pc[r] = "done" /\ res[r].status = 200
                                 /\ res[r].balance = p.balance /\ res[r].cached = p.cached
                      /\ ~p.ok => ctx[r].origin = "adapter" /\ ctx[r].err = p.err
C3_NoStaleEntry ==
    \A a \in BtcAddresses :
        inFlightBtc[a] # 0 =>
            /\ input[inFlightBtc[a]].address = a
            /\ scan[inFlightBtc[a]].state \in {"pending", "settled"}
C3_EntryRemoved ==
    /\ []C3_NoStaleEntry
    /\ \A r \in Req :
          (scan[r].state = "settled") ~> (\A a \in BtcAddresses : inFlightBtc[a] # r)

\* A scan failed and, after it, another request for the same address is
\* running a scan of its own.
C3_Witness ==
    \E r, q \in Req :
        /\ r # q /\ input[r].address = input[q].address
        /\ scan[r].state = "done" /\ ~scan[r].ok
        /\ pc[q] = "tip" /\ inFlightBtc[input[q].address] = q

\* C4: tryScanTxOutSet answers from the cache only when the entry of the
\* address records the node's best block as just fetched and is younger than
\* 10 minutes; it then issues no scantxoutset call, returns the entry's
\* balance and flags raw as cached. Otherwise the tip fetch is followed by a
\* scantxoutset call, and no response flagged as cached rests on a scan.
C4_TipStep ==
    \A r \in Req :
        pc[r] = "tip" /\ pc'[r] # "tip" =>
            LET cached == btcCache[input[r].address]
                fresh == /\ cached # Null
                         /\ cached.bestblock = Blocks[height]
                         /\ now - cached.at < 600000
            IN  /\ scan'[r].cached =>
                      /\ fresh
                      /\ scan'[r].ok /\ scan'[r].balance = cached.balance
                      /\ calls'[r] = calls[r]
                /\ ~fresh => ~scan'[r].ok \/ pc'[r] = "scan"
                /\ pc'[r] = "scan" => ~fresh /\ calls'[r] = Append(calls[r], "scan")
C4_CachedResponse ==
    \A r \in Req :
        pc[r] = "done" /\ res[r].cached =>
            /\ awaiting[r] # 0
            /\ scan[awaiting[r]].cached
            /\ Count(calls[awaiting[r]], "scan") = 0
C4_CacheOnlyWhenFresh == [][C4_TipStep]_vars /\ []C4_CachedResponse

\* A request was answered from an entry that is one millisecond short of the
\* TTL.
C4_Witness ==
    \E r \in Req :
        /\ pc[r] = "done" /\ res[r].status = 200 /\ res[r].cached
        /\ btcCache[input[r].address] # Null
        /\ now - btcCache[input[r].address].at = 600000 - 1

\* C5: an entry of the scan cache changes only in the step in which the
\* scantxoutset call of a request for that address succeeds with a balance
\* and a best block, and then to exactly that best block, that balance and
\* the current time; every other step (a failed scan, a cache hit, an
\* alternate provider's answer) leaves the cache as it was.
C5_Step ==
    \A a \in BtcAddresses :
        btcCache'[a] # btcCache[a] =>
            \E r \in Req :
                /\ pc[r] = "scan" /\ input[r].address = a
                /\ scan'[r].state = "settled" /\ scan'[r].ok /\ ~scan'[r].cached
                /\ btcCache'[a] = [bestblock |-> Blocks[height],
                                   balance |-> scan'[r].balance, at |-> now]
                /\ scan'[r].balance # <<>>
                /\ \A b \in BtcAddresses \ {a} : btcCache'[b] = btcCache[b]
C5_CacheWrittenOnlyBySuccess == [][C5_Step]_vars

\* The cache holds an entry while a later scan of the same address has failed.
C5_Witness ==
    \E r \in Req :
        /\ scan[r].state \in {"settled", "done"} /\ ~scan[r].ok
        /\ Count(calls[r], "scan") = 1
        /\ btcCache[input[r].address] # Null

\* Request r is a Bitcoin request without a provider override whose
\* node-based fetch (fetchBitcoinBalance) failed.
NodeFetchFailed(r) == IsBtc(r) /\ ctx[r].origin = "adapter"
Last(seq) == seq[Len(seq)]

\* C6: after a failed node-based Bitcoin fetch the alternates are called in
\* the order blockstream, chainz, each at most once and chainz only right
\* after blockstream has failed; the first success answers 200 with the
\* provider that succeeded (header and body) and an x-fallback-reason header,
\* and a request that has answered calls nothing more.
C6_Order ==
    \A r \in Req :
        IsBtc(r) /\ parseBalanceProvider(input[r].provider) = "chainstack" =>
            /\ Count(calls[r], "blockstream") <= 1 /\ Count(calls[r], "chainz") <= 1
            /\ \A i \in 1..Len(calls[r]) :
                  calls[r][i] = "chainz" => i > 1 /\ calls[r][i - 1] = "blockstream"
            /\ pc[r] = "fallback1" => Last(calls[r]) = "blockstream"
            /\ pc[r] = "fallback2" => Last(calls[r]) = "chainz"
            /\ NodeFetchFailed(r) /\ pc[r] = "done" /\ res[r].status = 200 =>
                  /\ res[r].provider \in {"blockstream", "chainz"}
                  /\ res[r].provider = Last(calls[r])
                  /\ res[r].xProvider = res[r].provider
                  /\ res[r].xFallbackReason # ""
                  /\ res[r].xFallbackReason = ctx[r].reason
C6_Step ==
    \A r \in Req :
        /\ pc[r] = "done" => pc'[r] = "done" /\ calls'[r] = calls[r] /\ res'[r] = res[r]
        /\ pc[r] = "fallback1" /\ pc'[r] # "fallback1" =>
              \/ pc'[r] = "done" /\ res'[r].status = 200 /\ res'[r].provider = "blockstream"
                               /\ calls'[r] = calls[r]
              \/ pc'[r] = "fallback2" /\ calls'[r] = Append(calls[r], "chainz")
C6_CascadeInOrder == [][C6_Step]_vars /\ []C6_Order

\* The node-based fetch failed, blockstream failed, chainz answered.
C6_Witness ==
    \E r \in Req :
        /\ NodeFetchFailed(r) /\ pc[r] = "done" /\ res[r].status = 200
        /\ res[r].provider = "chainz" /\ Count(calls[r], "blockstream") = 1
        /\ res[r].xFallbackReason = "BTC_SCAN_IN_PROGRESS"

\* C7: when the node-based Bitcoin fetch and both alternates have failed, the
\* response is made of the node path's error: its HTTP status (body passed
\* through) when it is an axios error with a response, else 502 with its
\* message.
C7_UnderlyingError ==
    \A r \in Req :
        NodeFetchFailed(r) /\ pc[r] = "done" /\ res[r].status # 200 =>
            LET e == ctx[r].err
            IN  /\ Count(calls[r], "blockstream") = 1 /\ Count(calls[r], "chainz") = 1
                /\ awaiting[r] # 0 => e = scan[awaiting[r]].err
                /\ IF e.axios /\ e.status # 0
                   THEN res[r].status = e.status /\ res[r].body = "upstream"
                   ELSE res[r].status = 502 /\ res[r].body = "error"
                        /\ res[r].message = e.message

\* The scan failed with HTTP 500, both alternates failed, the response is 500.
C7_Witness ==
    \E r \in Req :
        /\ NodeFetchFailed(r) /\ pc[r] = "done"
        /\ res[r].status = 500 /\ res[r].body = "upstream"
        /\ Last(calls[r]) = "chainz"

\* C8: a request for a chain other than Bitcoin never calls an alternate
\* provider; it answers 400 before any call, 502 when it ends without an
\* adapter call (node directory failure, no matching node), and after an
\* adapter failure the error's HTTP status when it has one, else 502.
C8_NoFallbackOffBitcoin ==
    \A r \in Req :
        Began(r) /\ input[r].chain # <<>> /\ normalizedChain(input[r]) # btc =>
            /\ Count(calls[r], "blockstream") = 0 /\ Count(calls[r], "chainz") = 0
            /\ pc[r] \in {"nodes", "adapter", "done"}
            /\ \A i \in 1..Len(calls[r]) : calls[r][i] \in {"nodes", "adapter"}
            /\ pc[r] = "done" /\ Count(calls[r], "adapter") = 0 =>
                  \/ res[r].status = 400 /\ calls[r] = <<>>
                  \/ res[r].status = 502
            /\ pc[r] = "done" /\ Count(calls[r], "adapter") = 1 =>
                  \/ res[r].status = 200 /\ ctx[r].origin = ""
                  \/ /\ ctx[r].origin = "adapter"
                     /\ res[r].status = IF ctx[r].err.axios /\ ctx[r].err.status # 0
                                        THEN ctx[r].err.status ELSE 502

\* An Ethereum adapter failed with HTTP 404 and the response is 404.
C8_Witness ==
    \E r \in Req :
        /\ Began(r) /\ normalizedChain(input[r]) = eth /\ pc[r] = "done"
        /\ res[r].status = 404 /\ calls[r] = <<"nodes", "adapter">>

\* What C9 calls a request that fails validation.
FailsValidation(in) ==
    \/ in.chain = <<>> \/ in.address = <<>>
    \/ ~CHAIN_PARAM_REGEX(in.chain)
    \/ toLowerCase(in.chain) \notin ChainHandlerKeys
    \/ toLowerCase(in.chain) \in {eth, bnb} /\ ~EvmAddressRegex(in.address)
    \/ toLowerCase(in.chain) = apt /\ ~AptValidateAddress(in.address)

\* C9: a request that fails validation (chain or address missing, chain key
\* not matching the pattern, chain key with no adapter, address rejected by
\* the adapter's validateAddress) ends with 400 and makes no outbound call.
C9_InvalidIs400NoCall ==
    \A r \in Req :
        Began(r) /\ FailsValidation(input[r]) =>
            pc[r] = "done" /\ res[r].status = 400 /\ calls[r] = <<>>

\* The caller names an alternate provider for a Bitcoin address.
NamedAlternate(in) ==
    IF in.provider.type = "string"
    THEN LET name == toLowerCase(trim(in.provider.text))
         IN  IF name = <<"c","h","a","i","n","z">> THEN "chainz"
             ELSE IF name = <<"b","l","o","c","k","s","t","r","e","a","m">> THEN "blockstream"
             ELSE ""
    ELSE ""
Overridden(r) ==
    /\ Began(r) /\ normalizedChain(input[r]) = btc /\ input[r].address # <<>>
    /\ NamedAlternate(input[r]) # ""

\* C10: a Bitcoin request that names chainz or blockstream calls that
\* provider and nothing else: no node directory call, no tip fetch, no scan,
\* no promise registered or awaited, and its steps leave the scan cache, the
\* in-flight map and the node list as they were; a success is answered with
\* that provider and no x-fallback-reason.
C10_Calls ==
    \A r \in Req :
        Overridden(r) =>
            /\ calls[r] = <<NamedAlternate(input[r])>>
            /\ pc[r] \in {"override", "done"}
            /\ scan[r] = NoScan /\ awaiting[r] = 0
            /\ \A a \in BtcAddresses : inFlightBtc[a] # r
            /\ pc[r] = "done" /\ res[r].status = 200 =>
                  /\ res[r].provider = NamedAlternate(input[r])
                  /\ res[r].xFallbackReason = ""
C10_Step ==
    \A r \in Req :
        pc'[r] # pc[r] /\ NamedAlternate(input'[r]) # "" /\ normalizedChain(input'[r]) = btc =>
            UNCHANGED <<btcCache, inFlightBtc, cachedNodes, nodesCacheExpiry>>
C10_OverrideBypassesNode == [][C10_Step]_vars /\ []C10_Calls

\* A Bitcoin request naming blockstream was answered by blockstream alone.
C10_Witness ==
    \E r \in Req :
        /\ Overridden(r) /\ pc[r] = "done" /\ res[r].status = 200
        /\ res[r].provider = "blockstream" /\ calls[r] = <<"blockstream">>

\* Request r is a Bitcoin request without a provider override.
DefaultBtc(r) == IsBtc(r) /\ parseBalanceProvider(input[r].provider) = "chainstack"
\* The alternates called so far, in order.
Alternates(r) == SelectSeq(calls[r], LAMBDA c : c \in {"blockstream", "chainz"})

\* C11: a Bitcoin request without override whose node directory lookup fails
\* or yields no Bitcoin node is never ended by that failure itself: the
\* alternates are called in the order blockstream, chainz; a success answers
\* 200 with the provider and x-fallback-reason nodes-fetch-failed or no-node;
\* the request fails, with 502, only after both alternates have failed.
C11_Step ==
    \A r \in Req :
        /\ pc[r] \in {"idle", "nodes"} /\ pc'[r] = "done"
        /\ normalizedChain(input'[r]) = btc
        => res'[r].status = 400 /\ calls'[r] = <<>>
C11_Outcome ==
    \A r \in Req :
        DefaultBtc(r) /\ ctx[r].origin \in {"nodes", "nonode"} =>
            /\ "tip" \notin {calls[r][i] : i \in 1..Len(calls[r])}
            /\ ctx[r].reason = IF ctx[r].origin = "nodes" THEN "nodes-fetch-failed" ELSE "no-node"
            /\ Alternates(r) \in {<<"blockstream">>, <<"blockstream", "chainz">>}
            /\ pc[r] \in {"fallback1", "fallback2", "done"}
            /\ pc[r] = "fallback1" => Alternates(r) = <<"blockstream">>
            /\ pc[r] = "fallback2" => Alternates(r) = <<"blockstream", "chainz">>
            /\ pc[r] = "done" =>
                  \/ /\ res[r].status = 200
                     /\ res[r].provider = Last(calls[r])
                     /\ res[r].xProvider = res[r].provider
                     /\ res[r].xFallbackReason = ctx[r].reason
                  \/ /\ res[r].status = 502
                     /\ Alternates(r) = <<"blockstream", "chainz">>
C11_DirectoryFailureCascades == [][C11_Step]_vars /\ []C11_Outcome

\* The directory answered without a running Bitcoin node; chainz answered
\* after blockstream failed.
C11_Witness ==
    \E r \in Req :
        /\ DefaultBtc(r) /\ ctx[r].origin = "nonode" /\ pc[r] = "done"
        /\ res[r].status = 200 /\ res[r].provider = "chainz"
        /\ res[r].xFallbackReason = "no-node"
        /\ calls[r] = <<"nodes", "blockstream", "chainz">>

\* The failure kinds of the Bitcoin node path, by the code the error carries
\* (an HTTP error carries the axios code, a failed tip call only a message).
FailureCodes ==
    {"BTC_SCAN_UNAVAILABLE", "BTC_SCAN_IN_PROGRESS", "BTC_SCAN_FAILED", "BTC_TIP_TIMEOUT",
     "BTC_INVALID_RESPONSE", "ERR_BAD_RESPONSE", "ECONNABORTED", ""}

\* C12: whatever the failure kind of the Bitcoin node path, the request that
\* resumes with the failure calls blockstream next and nothing else, then
\* chainz if blockstream fails; the kind shows only in x-fallback-reason,
\* which is the error's code (its message when it has no code).
C12_Step ==
    \A r \in Req :
        pc[r] = "await" /\ pc'[r] # "await" /\ ~scan[awaiting[r]].ok =>
            /\ scan[awaiting[r]].err.code \in FailureCodes
            /\ pc'[r] = "fallback1"
            /\ calls'[r] = Append(calls[r], "blockstream")
            /\ res'[r] = NoRes
            /\ ctx'[r].err = scan[awaiting[r]].err
            /\ ctx'[r].reason = IF ctx'[r].err.code # "" THEN ctx'[r].err.code
                                ELSE ctx'[r].err.message
C12_Outcome ==
    \A r \in Req :
        NodeFetchFailed(r) =>
            /\ Alternates(r) \in {<<"blockstream">>, <<"blockstream", "chainz">>}
            /\ pc[r] = "fallback1" => Alternates(r) = <<"blockstream">>
            /\ pc[r] = "fallback2" => Alternates(r) = <<"blockstream", "chainz">>
            /\ pc[r] = "done" /\ res[r].status = 200 =>
                  /\ [res[r] EXCEPT !.xFallbackReason = ""]
                        = [NoRes EXCEPT !.status = 200, !.body = "balance",
                                        !.xProvider = Last(calls[r]),
                                        !.provider = Last(calls[r]),
                                        !.balance = res[r].balance,
                                        !.unit = "satoshi"]
                  /\ res[r].xFallbackReason = ctx[r].reason
            /\ pc[r] = "done" /\ res[r].status # 200 =>
                  Alternates(r) = <<"blockstream", "chainz">>
C12_SameCascadeForEveryFailure == [][C12_Step]_vars /\ []C12_Outcome

\* The tip fetch timed out and blockstream answered.
C12_Witness ==
    \E r \in Req :
        /\ NodeFetchFailed(r) /\ pc[r] = "done" /\ res[r].status = 200
        /\ res[r].xFallbackReason = "BTC_TIP_TIMEOUT"
        /\ calls[r] = <<"nodes", "tip", "blockstream">>

\* Request r calls fetchChainstackNodes in this step: it arrives, passes
\* validation and is not a provider override.
CallsListNodes(r) ==
    /\ pc[r] = "idle" /\ pc'[r] # "idle"
    /\ res'[r].status # 400
    /\ ~(normalizedChain(input'[r]) = btc /\ NamedAlternate(input'[r]) # "")
AllRunning(nodes) == \A i \in 1..Len(nodes) : nodes[i].status = "running"
NodesCalls(r) == Count(calls[r], "nodes")

\* C13: a fetchChainstackNodes call made while a list is cached and the clock
\* is before its expiry issues no provisioning call, leaves list and expiry
\* alone and proceeds with the cached list; a call made after the expiry
\* issues exactly one provisioning call, and the answer to it replaces the
\* list and sets the expiry 5 hours after the time the call was made.
C13_Step ==
    \A r \in Req :
        /\ CallsListNodes(r) /\ apiKey /\ cachedNodes.set /\ now < nodesCacheExpiry =>
              /\ NodesCalls(r)' = 0
              /\ cachedNodes' = cachedNodes /\ nodesCacheExpiry' = nodesCacheExpiry
              /\ pc'[r] = IF selectNode(cachedNodes.nodes, normalizedChain(input'[r])) # 0
                          THEN "adapter" ELSE "done"
        /\ CallsListNodes(r) /\ apiKey /\ cachedNodes.set /\ now > nodesCacheExpiry =>
              /\ pc'[r] = "nodes" /\ calls'[r] = <<"nodes">> /\ nodesNow'[r] = now
        /\ pc[r] = "nodes" =>
              /\ NodesCalls(r) = 1 /\ NodesCalls(r)' = 1
              /\ pc'[r] = "nodes" => nodesNow'[r] = nodesNow[r]
              /\ /\ pc'[r] # "nodes" /\ normalizedChain(input[r]) # btc
                 /\ res'[r].message # "Unable to fetch Chainstack nodes"
                 => /\ cachedNodes'.set
                    /\ nodesCacheExpiry' = nodesNow[r] + 5 * 60 * 60 * 1000
                    /\ pc'[r] = IF selectNode(cachedNodes'.nodes, normalizedChain(input[r])) # 0
                                THEN "adapter" ELSE "done"
C14_Step ==
    \A r \in Req :
        /\ CallsListNodes(r) /\ ~apiKey =>
              /\ calls'[r] = <<>>
              /\ pc'[r] = IF normalizedChain(input'[r]) = btc THEN "fallback1" ELSE "done"
              /\ pc'[r] = "done" =>
                    /\ res'[r].status = 502 /\ res'[r].body = "error"
                    /\ res'[r].message = "Chainstack API key is not configured"
              /\ cachedNodes' = cachedNodes /\ nodesCacheExpiry' = nodesCacheExpiry
        /\ /\ pc[r] = "nodes" /\ pc'[r] = "done"
           /\ res'[r].message = "Unable to fetch Chainstack nodes"
           => /\ res'[r].status = 502 /\ res'[r].body = "error"
              /\ cachedNodes' = cachedNodes /\ nodesCacheExpiry' = nodesCacheExpiry
C14_NoKeyNoList == ~apiKey => cachedNodes = NoNodes /\ \A r \in Req : NodesCalls(r) = 0
C14_FailureKeepsCache == [][C14_Step]_vars /\ []C14_NoKeyNoList

\* A refresh failed while a list was cached: the list is still there.
C14_Witness ==
    \E r \in Req :
        /\ pc[r] = "done" /\ res[r].message = "Unable to fetch Chainstack nodes"
        /\ cachedNodes.set /\ now > nodesCacheExpiry /\ nodesCacheExpiry > 0

\* C15: the cached list holds running nodes only; it changes only in the step
\* in which a provisioning call is answered, and then as a whole; the node an
\* adapter is handed is a running node of the list as it is in that step.
C15_Running == AllRunning(cachedNodes.nodes)
C15_Step ==
    /\ cachedNodes' # cachedNodes =>
          /\ \E r \in Req : pc[r] = "nodes" /\ pc'[r] # "nodes"
          /\ cachedNodes'.set /\ AllRunning(cachedNodes'.nodes)
    /\ \A r \in Req :
          pc[r] # "adapter" /\ pc'[r] = "adapter" =>
              LET n == selectNode(cachedNodes'.nodes, normalizedChain(input'[r]))
              IN  n # 0 /\ cachedNodes'.nodes[n].status = "running"
C15_OnlyRunningNodes == [][C15_Step]_vars /\ []C15_Running

\* The provisioning answer held a stopped node; the list kept the running
\* one and an adapter was handed it.
C15_Witness ==
    /\ cachedNodes.set
    /\ cachedNodes.nodes = <<Node("n2", "running", "ethereum", TRUE)>>
    /\ \E r \in Req : pc[r] = "adapter" /\ normalizedChain(input[r]) = eth

\* C16: a broadcast request sends at most one submission upstream, as its
\* last outbound call; when the submission settles, whatever the outcome, the
\* request is answered in the same step and calls nothing afterwards.
C16_Calls ==
    \A r \in Req :
        /\ Count(calls[r], "submit") <= 1
        /\ \A i \in 1..Len(calls[r]) :
              /\ calls[r][i] \in {"nodes", "submit"}
              /\ calls[r][i] = "submit" => i = Len(calls[r])
        /\ pc[r] = "submit" => Count(calls[r], "submit") = 1
C16_Step ==
    \A r \in Req :
        /\ pc[r] = "submit" => calls'[r] = calls[r] /\ pc'[r] \in {"submit", "done"}
        /\ pc[r] = "done" => calls'[r] = calls[r] /\ pc'[r] = "done"
C16_SubmittedOnce == [][C16_Step]_vars /\ []C16_Calls

\* A submission timed out and the request was answered 502 after that one call.
C16_Witness ==
    \E r \in Req :
        /\ pc[r] = "done" /\ res[r].status = 502
        /\ res[r].message = "timeout of 15000ms exceeded"
        /\ Count(calls[r], "submit") = 1

\* What C17 calls an invalid broadcast request.
IsHexText(t) ==
    LET h == IF StartsWith0x(t) THEN SubSeq(t, 3, Len(t)) ELSE t
    IN  h # <<>> /\ Len(h) % 2 = 0 /\ \A i \in 1..Len(h) : h[i] \in HexDigits
IsBase64Text(t) ==
    t # <<>> /\ \A i \in 1..Len(t) : t[i] \in Base64Chars \cup {"="}
FailsBroadcastValidation(in) ==
    LET key == toLowerCase(in.chain)
        value == extractSignedPayload(in.body)
    IN  \/ in.chain = <<>>
        \/ ~CHAIN_PARAM_REGEX(in.chain)
        \/ key \notin BroadcastHandlerKeys
        \/ value.type = "undefined"
        \/ value.type = "string" /\ key \in {btc, eth, bnb, tron} /\ ~IsHexText(trim(value.text))
        \/ value.type = "string" /\ key = sol /\ ~IsBase64Text(trim(value.text))

\* C17: a broadcast request with an invalid chain key, a chain without a
\* broadcast adapter, no payload, or a payload that is not even-length hex
\* (btc, eth, bnb, tron) or is empty or not base64 (sol) ends with 400 and
\* makes no outbound call.
C17_InvalidBroadcastIs400NoCall ==
    \A r \in Req :
        Began(r) /\ FailsBroadcastValidation(input[r]) =>
            pc[r] = "done" /\ res[r].status = 400 /\ calls[r] = <<>>

\* A decimal integer string: -?[0-9]+ without leading zeros other than "0".
IsIntegerString(b) ==
    LET d == IF b # <<>> /\ b[1] = "-" THEN Tail(b) ELSE b
    IN  /\ d # <<>>
        /\ \A i \in 1..Len(d) : d[i] \in Digits
        /\ Len(d) > 1 => d[1] # "0"

\* C18: the balance of every BalanceResult answered with status 200 is a
\* decimal integer string (no decimal point, no exponent, no leading zeros).
C18_BalanceIsIntegerString ==
    \A r \in Req :
        pc[r] = "done" /\ res[r].status = 200 /\ res[r].body = "balance" =>
            IsIntegerString(res[r].balance)

\* Response bodies sent with res.json(...); the others are sent with
\* res.send(text).
JsonBodies == {"balance", "broadcast", "error", "upstream"}

\* C19: every request that has ended has sent a response with a status and a
\* JSON body.
C19_JsonResponse ==
    \A r \in Req :
        pc[r] = "done" => res[r].status # 0 /\ res[r].body \in JsonBodies

\* C20: every balance request that has begun is eventually answered, given
\* only what the calls' timeouts guarantee.
C20_EveryRequestAnswered ==
    \A r \in Req : (pc[r] # "idle") ~> (pc[r] = "done")

\* The outbound steps of a balance request that the handler may take: the
\* adapter (for Bitcoin its two RPCs) and the two alternate providers.
BalanceSteps == {"adapter", "tip", "scan", "blockstream", "chainz"}

\* C21: within one balance request each step (the node adapter, each
\* alternate provider) is called at most once: a step never adds a call the
\* request has already made, and when the adapter's call fails, by a timeout
\* or otherwise, the request ends in that step with an error response.
C21_Calls ==
    \A r \in Req : \A c \in BalanceSteps : Count(calls[r], c) <= 1
C21_Step ==
    \A r \in Req :
        /\ calls'[r] # calls[r] /\ calls'[r] # <<>> =>
              /\ Len(calls'[r]) = Len(calls[r]) + 1
              /\ Count(calls[r], Last(calls'[r])) = 0
        /\ pc[r] = "adapter" /\ pc'[r] # "adapter" =>
              /\ pc'[r] = "done" /\ calls'[r] = calls[r]
              /\ res'[r].status # 200 => ctx'[r].origin = "adapter" /\ res'[r].status >= 400
C21_EachStepOnce == [][C21_Step]_vars /\ []C21_Calls

\* An adapter call timed out and the request ended with that single call.
C21_Witness ==
    \E r \in Req :
        /\ pc[r] = "done" /\ ctx[r].origin = "adapter"
        /\ ctx[r].err.code = "ECONNABORTED" /\ res[r].status = 502
        /\ Count(calls[r], "adapter") = 1

\* The address of request r is one its adapter throws over before it calls
\* the node, and the adapter was reached.
RejectedInAdapter(r) ==
    /\ pc[r] = "done" /\ ctx[r].origin = "adapter"
    /\ AdapterAddressError(normalizedChain(input[r]), input[r].address) # ""

\* C22: a request whose address its adapter finds malformed (a Tron address
\* that does not decode as base58check, an Aptos address longer than 32
\* bytes) is answered with a status from 400 to 499.
C22_AdapterAddressIs4xx ==
    \A r \in Req : RejectedInAdapter(r) => res[r].status \in 400..499

\* Request r has passed validation and names no alternate provider, so that
\* the handler turns to the node directory.
TurnsToDirectory(in) ==
    /\ in.chain # <<>> /\ in.address # <<>> /\ CHAIN_PARAM_REGEX(in.chain)
    /\ CHAIN_HANDLERS(normalizedChain(in)) # "undefined"
    /\ ~AddressRejected(normalizedChain(in), in.address)
    /\ ~(normalizedChain(in) = btc /\ NamedAlternate(in) # "")

\* C23: a missing credential is an ordinary failure of its step. Without the
\* provisioning key a Bitcoin request goes to Blockstream with no directory
\* call and any other request is answered 502 with an error body; when
\* Blockstream has no credentials the cascade goes on to Chainz, and a request
\* that names Blockstream is answered 502 with that error; every request that
\* ends has a response with a status and a body; and a request that has
\* reached an alternate provider is eventually answered.
C23_Step ==
    \A r \in Req :
        /\ pc[r] = "idle" /\ pc'[r] # "idle" /\ ~apiKey /\ TurnsToDirectory(input'[r]) =>
              IF normalizedChain(input'[r]) = btc
              THEN pc'[r] = "fallback1" /\ calls'[r] = <<"blockstream">>
              ELSE /\ pc'[r] = "done" /\ calls'[r] = <<>>
                   /\ res'[r].status = 502 /\ res'[r].body = "error"
        /\ BlockstreamReply(r, BlockstreamUnconfigured) =>
              pc'[r] = "fallback2" /\ calls'[r] = Append(calls[r], "chainz")
        /\ OverrideReply(r, BlockstreamUnconfigured) =>
              /\ pc'[r] = "done" /\ calls'[r] = calls[r]
              /\ res'[r].status = 502 /\ res'[r].body = "error"
              /\ res'[r].message = "Blockstream credentials are not configured"
C23_Answered ==
    \A r \in Req : pc[r] = "done" => res[r].status # 0 /\ res[r].body # "none"
Is404(reply) == reply.kind = "error" /\ reply.err.axios /\ reply.err.status = 404
IsAptos(r) == Began(r) /\ normalizedChain(input[r]) = apt

\* C24: for Aptos a 404 of the account-resource lookup is followed by the
\* view call, a 404 of the view call gives a 200 answer with balance "0", and
\* any other failure of either call ends the request with that failure's
\* response (never a 200); balance "0" is only answered after the view call.
C24_Step ==
    \A r \in Req : IsAptos(r) =>
        /\ \A reply \in AdapterReplies : reply.kind = "error" /\ AdapterReply(r, reply) =>
              IF Is404(reply)
              THEN pc'[r] = "view" /\ calls'[r] = Append(calls[r], "view") /\ res'[r] = res[r]
              ELSE pc'[r] = "done" /\ calls'[r] = calls[r]
                   /\ res'[r] = CatchResponse(input[r], reply.err) /\ res'[r].status # 200
        /\ \A reply \in ViewReplies : reply.kind = "error" /\ ViewReply(r, reply) =>
              IF Is404(reply)
              THEN pc'[r] = "done" /\ res'[r].status = 200 /\ res'[r].balance = <<"0">>
              ELSE pc'[r] = "done"
                   /\ res'[r] = CatchResponse(input[r], reply.err) /\ res'[r].status # 200
C24_ZeroAfterView ==
    \A r \in Req :
        IsAptos(r) /\ pc[r] = "done" /\ res[r].status = 200 /\ res[r].balance = <<"0">> =>
            Len(calls[r]) >= 2 /\ SubSeq(calls[r], Len(calls[r]) - 1, Len(calls[r])) = <<"adapter", "view">>
C24_AptosNotFoundIsZero == [][C24_Step]_vars /\ []C24_ZeroAfterView

\* An Aptos request was answered "0" after the lookup and the view call.
C24_Witness ==
    \E r \in Req :
        /\ IsAptos(r) /\ pc[r] = "done" /\ res[r].status = 200 /\ res[r].balance = <<"0">>
        /\ Count(calls[r], "adapter") = 1 /\ Count(calls[r], "view") = 1

\* The sources of a TON balance in the order the claim gives them.
TonOrder ==
    <<"v3:jsonrpc", "v3:root", "v3:rest", "v3:query",
      "v2:jsonrpc", "v2:root", "v2:rest", "v2:query", "tonapi">>
TonRank(c) == CHOOSE i \in 1..Len(TonOrder) : TonOrder[i] = c
IsTonCall(c) == \E i \in 1..Len(TonOrder) : TonOrder[i] = c
TonCalls(r) == SelectSeq(calls[r], IsTonCall)
IsTon(r) == Began(r) /\ normalizedChain(input[r]) = ton
\* The sources the node of request r offers: those of its configured endpoints
\* (an endpoint that is itself a /jsonrpc URL has no separate root) and the
\* public explorer.
TonOffered(r) ==
    {c \in {TonOrder[i] : i \in 1..Len(TonOrder)} :
        \/ c = "tonapi"
        \/ c \in {"v3:jsonrpc", "v3:rest", "v3:query"} /\ ctx[r].node.ton.v3 # "none"
        \/ c = "v3:root" /\ ctx[r].node.ton.v3 = "plain"
        \/ c \in {"v2:jsonrpc", "v2:rest", "v2:query"} /\ ctx[r].node.ton.v2 # "none"
        \/ c = "v2:root" /\ ctx[r].node.ton.v2 = "plain"}

\* C25: the requests of a TON lookup follow the order v3 before v2, within an
\* endpoint JSON-RPC at /jsonrpc, JSON-RPC at the root, GET /getAddressBalance,
\* GET ?method=getAddressBalance, and the public explorer last: the requests
\* made so far are exactly the offered sources up to the latest one, in that
\* order; a reply that holds a balance ends the lookup with a 200 answer and
\* no further request; a reply that holds none is followed by the next
\* offered source, or ends the request when none is left.
C25_Order ==
    \A r \in Req : IsTon(r) /\ TonCalls(r) # <<>> =>
        LET made == TonCalls(r)
        IN  /\ \A i \in 1..Len(made) : made[i] \in TonOffered(r)
            /\ \A i \in 1..(Len(made) - 1) : TonRank(made[i]) < TonRank(made[i + 1])
            /\ \A c \in TonOffered(r) :
                  TonRank(c) < TonRank(made[Len(made)]) => \E i \in 1..Len(made) : made[i] = c
C25_Step ==
    \A r \in Req : IsTon(r) /\ pc[r] = "ton" =>
        /\ \A reply \in TonReplies : TonReply(r, reply) =>
              IF reply.kind = "balance"
              THEN pc'[r] = "done" /\ res'[r].status = 200 /\ calls'[r] = calls[r]
              ELSE IF \E c \in TonOffered(r) : TonRank(c) > TonRank(Last(calls[r]))
              THEN pc'[r] = "ton" /\ Len(calls'[r]) = Len(calls[r]) + 1 /\ res'[r] = res[r]
              ELSE pc'[r] = "done" /\ res'[r].status # 200 /\ calls'[r] = calls[r]
        /\ calls'[r] # calls[r] => pc'[r] = "ton"
C25_TonSourcesInOrder == [][C25_Step]_vars /\ []C25_Order

\* Every endpoint request of a node with both endpoints failed and the
\* explorer was asked, as the ninth request.
C25_Witness ==
    \E r \in Req :
        /\ IsTon(r) /\ pc[r] = "ton" /\ TonCalls(r) = TonOrder

\* Request r takes, in this step, the node list to its chain's selectNode: it
\* leaves the start or the directory call other than by the call's failure.
Selects(r) ==
    /\ pc[r] \in {"idle", "nodes"} /\ pc'[r] \notin {"idle", "nodes"}
    /\ cachedNodes'.set /\ Count(calls'[r], "nodes") = Count(calls[r], "nodes")
    /\ TurnsToDirectory(input'[r]) /\ CHAIN_HANDLERS(normalizedChain(input'[r])) = "own"
    /\ normalizedChain(input'[r]) # btc
    /\ apiKey /\ res'[r].message # "Unable to fetch Chainstack nodes"

\* C26: when a request's chain selects from the node list, the node its
\* adapter is given is the first node of the list, in list order, that
\* satisfies the chain's predicate; when no node satisfies it the request is
\* answered by the no-node 502, not by an error of the selection.
C26_Step ==
    \A r \in Req : Selects(r) =>
        LET nodes == cachedNodes'.nodes
            key == normalizedChain(input'[r])
            matching == {i \in 1..Len(nodes) : NodeMatches(nodes[i], key)}
        IN  IF matching = {}
            THEN /\ pc'[r] = "done" /\ res'[r].status = 502 /\ res'[r].body = "text"
                 /\ res'[r].message = "No Chainstack node available for requested chain"
                 /\ ctx'[r].node = NoNode
            ELSE \E i \in matching :
                    /\ ctx'[r].node = nodes[i]
                    /\ \A j \in 1..(i - 1) : j \notin matching
C26_FirstMatchingNode == [][C26_Step]_vars

\* A request was given the first of two matching nodes of the cached list.
C26_Witness ==
    \E r \in Req :
        /\ pc[r] \in {"adapter", "ton"} /\ cachedNodes.set
        /\ \E i, j \in 1..Len(cachedNodes.nodes) :
              /\ i < j /\ ctx[r].node = cachedNodes.nodes[i]
              /\ NodeMatches(cachedNodes.nodes[i], normalizedChain(input[r]))
              /\ NodeMatches(cachedNodes.nodes[j], normalizedChain(input[r]))

\* Long division of a string of decimal digits by 16: the quotient's digits
\* and the remainder.
RECURSIVE Div16(_, _, _)
Div16(rest, rem, quot) ==
    IF rest = <<>> THEN [q |-> stripLeadingZeros(quot), r |-> rem]
    ELSE LET n == rem * 10 + DigitValue(Head(rest))
         IN  Div16(Tail(rest), n % 16, quot \o <<DigitChar(n \div 16)>>)
\* The hexadecimal digits, lower case and without leading zeros, of the
\* number a string of decimal digits denotes.
RECURSIVE DecimalToHex(_)
DecimalToHex(d) ==
    LET qr == Div16(d, 0, <<>>)
    IN  IF qr.q = <<"0">> THEN <<HexChar(qr.r)>> ELSE DecimalToHex(qr.q) \o <<HexChar(qr.r)>>
\* The numbers short strings of digits denote.
RECURSIVE HexValue(_)
HexValue(h) ==
    IF h = <<>> THEN 0 ELSE 16 * HexValue(SubSeq(h, 1, Len(h) - 1)) + ParseHexChar(LowerChar(h[Len(h)]))
RECURSIVE DecimalValue(_)
DecimalValue(d) ==
    IF d = <<>> THEN 0 ELSE 10 * DecimalValue(SubSeq(d, 1, Len(d) - 1)) + DigitValue(d[Len(d)])
IsCanonicalDecimal(d) ==
    /\ Len(d) >= 1 /\ \A i \in 1..Len(d) : d[i] \in Digits
    /\ Len(d) > 1 => d[1] # "0"
AllHexDigits(h) == \A i \in 1..Len(h) : h[i] \in HexDigits
\* What parseHexBalance hands to hexToDecimalString.
HexPart(result) ==
    IF StartsWith0x(result.text) THEN SubSeq(result.text, 3, Len(result.text)) ELSE result.text
\* Request r asked a chain whose adapter parses a hexadecimal quantity.
IsHexChain(r) == Began(r) /\ normalizedChain(input[r]) \in {eth, bnb, tron}

\* C27: an answer whose balance hexToDecimalString computed from the digits h
\* of the node's result is made of hexadecimal digits only, and its balance is
\* a canonical decimal string (digits, no leading zero but "0" itself) that,
\* divided back into hexadecimal digits, gives h in lower case without leading
\* zeros, and that denotes the same number where h has at most 6 digits; a
\* result that is a string of hexadecimal digits is never answered by an error.
C27_RoundTrip ==
    \A r \in Req :
        IsHexChain(r) /\ pc[r] = "done" /\ res[r].status = 200 =>
            LET h == HexPart(res[r].raw)
                d == res[r].balance
            IN  /\ AllHexDigits(h)
                /\ IsCanonicalDecimal(d)
                /\ DecimalToHex(d) = stripLeadingZeros(toLowerCase(h))
                /\ Len(h) <= 6 => DecimalValue(d) = HexValue(h)
C27_Step ==
    \A r \in Req :
        pc[r] = "adapter" /\ pc'[r] = "done" /\ res'[r].status # 200 =>
            \A reply \in HexReplies :
                reply.result.type = "string" /\ AllHexDigits(HexPart(reply.result)) =>
                    ~AdapterReply(r, reply)
C27_HexToDecimal == [][C27_Step]_vars /\ []C27_RoundTrip

\* A quantity of 80 bits was answered in decimal.
C27_Witness ==
    \E r \in Req :
        /\ IsHexChain(r) /\ pc[r] = "done" /\ res[r].status = 200
        /\ HexPart(res[r].raw) = [i \in 1..20 |-> "f"]
        /\ res[r].balance = <<"1","2","0","8","9","2","5","8","1","9","6","1","4","6","2","9",
                              "1","7","4","7","0","6","1","7","5">>

\* A Chainz answer of body text t settles request r, asked for by name or as
\* the last alternate.
ChainzSettles(r, t) ==
    \/ OverrideReply(r, [kind |-> "text", text |-> t])
    \/ ChainzReply(r, [kind |-> "text", text |-> t])
\* The decimal amounts: an optional sign, digits, and optionally a point and
\* more digits. WholeOf and FracOf are the digits before and after the point.
IsDecimalAmount(a) == MatchesPlainDecimal(a)
WholeOf(a) == SplitPart(Unsigned(a), 1)
FracOf(a) == SplitPart(Unsigned(a), 2)
\* The digit of amount a at the weight 10^j, and of the integer text n at 10^k.
AmountDigit(a, j) ==
    IF j >= 0
    THEN (IF j < Len(WholeOf(a)) THEN WholeOf(a)[Len(WholeOf(a)) - j] ELSE "0")
    ELSE (IF 0 - j <= Len(FracOf(a)) THEN FracOf(a)[0 - j] ELSE "0")
IntegerDigit(n, k) == IF k < Len(n) THEN n[Len(n) - k] ELSE "0"
\* Text out is the integer a * 10^d: "-" exactly for a negative a, then digits
\* without leading zeros, each digit that of a d places lower.
IsScaled(a, d, out) ==
    /\ SignOf(out) = (IF SignOf(a) = <<"-">> THEN <<"-">> ELSE <<>>)
    /\ Unsigned(out) # <<>> /\ AllDigits(Unsigned(out))
    /\ Unsigned(out) = <<"0">> \/ Unsigned(out)[1] # "0"
    /\ \A k \in 0..(Len(WholeOf(a)) + d + Len(out)) :
           IntegerDigit(Unsigned(out), k) = AmountDigit(a, k - d)
\* a has a non-zero digit beyond its d-th fractional digit.
ExceedsPrecision(a, d) == \E j \in (d + 1)..Len(FracOf(a)) : FracOf(a)[j] # "0"
\* The amount Chainz answered with, once normalizeChainzBalance has made it a
\* plain decimal.
AmountOf(t) == normalizeChainzBalance(trim(t)).value.text
HasAmount(t) == normalizeChainzBalance(trim(t)).ok

\* C28: for a decimal amount a and every decimals count d up to 8,
\* convertDecimalToIntegerString(a, d) fails with the precision error exactly
\* when a has a non-zero digit beyond its d-th fractional digit, and otherwise
\* returns the integer a * 10^d: missing fractional digits padded by zeros,
\* leading zeros stripped, "0" kept, and "-" in front for a negative a. The
\* request that Chainz answers with a is answered with a * 10^8, or fails.
C28_Function(a) ==
    \A d \in 0..CHAINZ_BTC_DECIMALS :
        IF ExceedsPrecision(a, d)
        THEN /\ ~convertDecimalToIntegerString(a, d).ok
             /\ convertDecimalToIntegerString(a, d).message = "Decimal value exceeds supported precision"
        ELSE /\ convertDecimalToIntegerString(a, d).ok
             /\ IsScaled(a, d, convertDecimalToIntegerString(a, d).value.text)
C28_Step ==
    \A r \in Req, t \in ChainzTexts :
        ChainzSettles(r, t) /\ HasAmount(t) =>
            /\ IsDecimalAmount(AmountOf(t))
            /\ C28_Function(AmountOf(t))
            /\ IF ExceedsPrecision(AmountOf(t), CHAINZ_BTC_DECIMALS)
               THEN res'[r].status # 200
               ELSE /\ res'[r].status = 200
                    /\ IsScaled(AmountOf(t), CHAINZ_BTC_DECIMALS, res'[r].balance)
C28_ScaledInteger == [][C28_Step]_vars
\* Chainz answered "1.23456789" and the balance is "123456789".
C28_Witness ==
    \E r \in Req :
        /\ pc[r] = "done" /\ res[r].status = 200
        /\ res[r].raw = StringValue(<<"1",".","2","3","4","5","6","7","8","9">>)
        /\ res[r].balance = <<"1","2","3","4","5","6","7","8","9">>

\* Chainz answered request r with a decimal amount of at most 8 fractional
\* digits, kept in raw; the balance is convertDecimalToIntegerString of it.
ChainzAnswered(r) ==
    /\ pc[r] = "done" /\ res[r].status = 200 /\ res[r].provider = "chainz"
    /\ res[r].raw.type = "string"
    /\ Len(FracOf(AmountOf(res[r].raw.text))) <= CHAINZ_BTC_DECIMALS
\* Amount a without a leading "+" and without trailing zeros of its fraction
\* (and without the point when no fraction is left).
WithoutPlusAndTrailingZeros(a) ==
    (IF SignOf(a) = <<"-">> THEN <<"-">> ELSE <<>>) \o WholeOf(a)
        \o (IF TrimTrailingZeros(FracOf(a)) = <<>> THEN <<>>
            ELSE <<".">> \o TrimTrailingZeros(FracOf(a)))
\* The same, and without leading zeros of its whole part (one "0" kept).
WithoutRedundantZeros(a) ==
    (IF SignOf(a) = <<"-">> THEN <<"-">> ELSE <<>>) \o stripLeadingZeros(WholeOf(a))
        \o (IF TrimTrailingZeros(FracOf(a)) = <<>> THEN <<>>
            ELSE <<".">> \o TrimTrailingZeros(FracOf(a)))
\* formatBitcoinFromSats of the balance of request r.
Rendered(r) == formatBitcoinFromSats(res[r].balance)

\* C29 as stated: rendering convertDecimalToIntegerString(a, 8) with
\* formatBitcoinFromSats yields a again up to removal of a leading "+" and of
\* trailing fractional zeros.
C29_RoundTripAsStated ==
    \A r \in Req :
        ChainzAnswered(r) =>
            Rendered(r) = Returned(WithoutPlusAndTrailingZeros(AmountOf(res[r].raw.text)))

\* C29, amended: for every decimal amount a with at most 8 fractional digits,
\* rendering convertDecimalToIntegerString(a, 8) with formatBitcoinFromSats
\* yields a again up to removal of a leading "+", of leading zeros of the whole
\* part and of trailing fractional zeros; the rendered form never ends in "."
\* and an all-zero fractional part collapses to the bare integer.
C29_RoundTrip ==
    \A r \in Req :
        ChainzAnswered(r) =>
            /\ Rendered(r) = Returned(WithoutRedundantZeros(AmountOf(res[r].raw.text)))
            /\ Rendered(r).value.text[Len(Rendered(r).value.text)] # "."
            /\ (\A i \in 1..Len(FracOf(AmountOf(res[r].raw.text))) :
                    FracOf(AmountOf(res[r].raw.text))[i] = "0")
                => "." \notin {Rendered(r).value.text[i] : i \in 1..Len(Rendered(r).value.text)}
\* Chainz answered "+21.50"; the balance 2150000000 is rendered "21.5".
C29_Witness ==
    \E r \in Req :
        /\ ChainzAnswered(r)
        /\ res[r].raw = StringValue(<<"+","2","1",".","5","0">>)
        /\ res[r].balance = <<"2","1","5","0","0","0","0","0","0","0">>
        /\ Rendered(r) = Returned(<<"2","1",".","5">>)

\* The parts of a text in scientific notation: sign and significand before
\* the "e" or "E", the exponent after it.
SignificandOf(x) == SubSeq(x, 1, IndexOfAny(x, {"e", "E"}) - 1)
ExponentOf(x) == NumberOf(SubSeq(x, IndexOfAny(x, {"e", "E"}) + 1, Len(x)))
Abs(n) == IF n < 0 THEN 0 - n ELSE n
\* Plain decimal out has the sign of text x in scientific notation and the
\* digits of its significand, each moved up by the exponent.
IsShifted(x, out) ==
    /\ IsDecimalAmount(out)
    /\ SignOf(out) = SignOf(x)
    /\ \A j \in (0 - (Len(x) + Len(out) + Abs(ExponentOf(x))))..(Len(x) + Len(out) + Abs(ExponentOf(x))) :
           AmountDigit(out, j) = AmountDigit(SignificandOf(x), j - ExponentOf(x))

\* C30: normalizeChainzBalance returns a plain decimal text unchanged, turns a
\* text in scientific notation into the plain decimal of the same value by
\* moving the point over its digits, and fails on an empty text, on a text that
\* looks like HTML and on a text of neither form; a request that Chainz
\* answers with a text it fails on is not answered with a balance.
C30_Function(x) ==
    IF x = <<>> \/ LooksLikeHtml(x) THEN ~normalizeChainzBalance(x).ok
    ELSE IF MatchesPlainDecimal(x) THEN normalizeChainzBalance(x) = Returned(x)
    ELSE IF MatchesScientific(x)
    THEN /\ normalizeChainzBalance(x).ok
         /\ IsShifted(x, normalizeChainzBalance(x).value.text)
    ELSE ~normalizeChainzBalance(x).ok
C30_Step ==
    \A r \in Req, t \in ChainzTexts :
        ChainzSettles(r, t) =>
            /\ C30_Function(trim(t))
            /\ ~HasAmount(t) => res'[r].status # 200
            /\ res'[r].status = 200 => res'[r].raw = StringValue(trim(t))
C30_PlainDecimal == [][C30_Step]_vars
\* Chainz answered "1.5e3", which is 1500, and "2e-2" is 0.02.
C30_Witness ==
    \E r \in Req :
        /\ pc[r] = "done" /\ res[r].status = 200
        /\ res[r].raw = StringValue(<<"1",".","5","e","3">>)
        /\ normalizeChainzBalance(res[r].raw.text) = Returned(<<"1","5","0","0">>)
        /\ normalizeChainzBalance(<<"2","e","-","2">>) = Returned(<<"0",".","0","2">>)
        /\ res[r].balance = <<"1","5","0","0">> \o Zeros(CHAINZ_BTC_DECIMALS)

\* Request r joins the in-flight run of another request in this step.
JoinsInFlight(r) == pc[r] # "await" /\ pc'[r] = "await" /\ awaiting'[r] # r

\* C31: on every Bitcoin balance lookup the best-block hash is fetched and the
\* scan cache consulted before the in-flight map is looked at: a request that
\* joins an in-flight scan for its address has fetched the best-block hash, and
\* the cache holds no valid entry of its address for the current tip.
C31_Step ==
    \A r \in Req :
        JoinsInFlight(r) =>
            /\ Count(calls'[r], "tip") >= 1
            /\ ~CacheHit(btcCache[input'[r].address], Blocks[height], now)
C31_TipAndCacheBeforeInFlight == [][C31_Step]_vars

\* C32: on every 200 balance response the x-provider header names the
\* provider that the provider member of the body names.
C32_HeaderNamesBodyProvider ==
    \A r \in Req :
        pc[r] = "done" /\ res[r].status = 200 /\ res[r].body = "balance"
            => res[r].xProvider = res[r].provider

\* Request r named an alternate provider for Bitcoin; an alternate provider
\* answered request r.
AsksOverride(r) ==
    /\ normalizedChain(input[r]) = btc
    /\ parseBalanceProvider(input[r].provider) \in {"chainz", "blockstream"}
AlternateAnswered(r) ==
    /\ res[r].status = 200 /\ res[r].body = "balance"
    /\ res[r].provider \in {"blockstream", "chainz"}

\* C33: a 200 balance response carries x-fallback-reason exactly when an
\* alternate provider answered it through the cascade, that is not on the
\* caller's explicit request; the header then tells what started the cascade:
\* the failed node discovery, the missing node, or the adapter's failure.
C33_FallbackReasonIffCascade ==
    \A r \in Req :
        pc[r] = "done" /\ res[r].status = 200 /\ res[r].body = "balance" =>
            /\ (res[r].xFallbackReason # "") <=> (AlternateAnswered(r) /\ ~AsksOverride(r))
            /\ (res[r].xFallbackReason # "") =>
                  IF awaiting[r] # 0
                  THEN res[r].xFallbackReason \notin {"nodes-fetch-failed", "no-node"}
                  ELSE res[r].xFallbackReason \in
                          {"nodes-fetch-failed", "no-node", "Node does not expose an HTTPS endpoint"}
\* The second alternate answered after the node adapter had failed.
C33_Witness ==
    \E r \in Req :
        /\ pc[r] = "done" /\ AlternateAnswered(r) /\ res[r].provider = "chainz"
        /\ Count(calls[r], "scan") = 1
        /\ res[r].xFallbackReason = "BTC_SCAN_UNAVAILABLE"

\* C34: every 200 answer to a Bitcoin balance request reports the balance in
\* the same unit and at the same scale whichever provider answered: the unit
\* name is that of the smallest unit and the balance counts whole units of it.
C34_SameUnitAndScale ==
    \A r, q \in Req :
        /\ pc[r] = "done" /\ res[r].status = 200 /\ res[r].body = "balance"
        /\ normalizedChain(input[r]) = btc
        /\ pc[q] = "done" /\ res[q].status = 200 /\ res[q].body = "balance"
        /\ normalizedChain(input[q]) = btc
        => /\ res[r].unit = res[q].unit
           /\ res[r].unit = "satoshi"
           /\ AllDigits(res[r].balance)

\* Request r names an alternate provider and a chain other than Bitcoin; the
\* chain of request r passes the chain checks of the handler.
NamesAlternateOffBitcoin(r) ==
    /\ Began(r)
    /\ parseBalanceProvider(input[r].provider) \in {"chainz", "blockstream"}
    /\ normalizedChain(input[r]) # btc
ChainAccepted(r) ==
    /\ input[r].chain # <<>> /\ input[r].address # <<>>
    /\ CHAIN_PARAM_REGEX(input[r].chain)
    /\ CHAIN_HANDLERS(normalizedChain(input[r])) # "undefined"
AlternateCalls(r) == Count(calls[r], "blockstream") + Count(calls[r], "chainz")

\* C35 as stated: a request that names chainz or blockstream for a chain other
\* than Bitcoin is answered with x-provider-override-ignored: true, and no
\* alternate provider is called for it.
C35_OverrideIgnoredAsStated ==
    \A r \in Req :
        NamesAlternateOffBitcoin(r) =>
            /\ AlternateCalls(r) = 0
            /\ pc[r] = "done" => res[r].xOverrideIgnored

\* C35, amended: a request that names chainz or blockstream for a chain other
\* than Bitcoin that passes the chain checks (well-formed, with a handler) is
\* answered with x-provider-override-ignored: true, no alternate provider is
\* called for it, and it takes the node-based path: rejected for its address,
\* else failed without the API key, else served from the cached node list,
\* else sent to the node directory. A request whose chain fails the checks is
\* answered 400 without the header.
C35_State ==
    \A r \in Req :
        NamesAlternateOffBitcoin(r) =>
            /\ AlternateCalls(r) = 0
            /\ pc[r] \notin {"override", "fallback1", "fallback2"}
            /\ pc[r] = "done" =>
                  IF ChainAccepted(r)
                  THEN /\ res[r].xOverrideIgnored
                       /\ res[r].xProvider \in {"", "chainstack"}
                       /\ res[r].xFallbackReason = ""
                  ELSE res[r].status = 400 /\ ~res[r].xOverrideIgnored
C35_Step ==
    \A r \in Req :
        pc[r] = "idle" /\ pc'[r] # "idle" /\ NamesAlternateOffBitcoin(r)' /\ ChainAccepted(r)' =>
            IF AddressRejected(normalizedChain(input'[r]), input'[r].address)
            THEN pc'[r] = "done" /\ res'[r].status = 400 /\ calls'[r] = <<>>
            ELSE IF ~apiKey
            THEN pc'[r] = "done" /\ res'[r].status = 502 /\ calls'[r] = <<>>
            ELSE IF NodesCacheValid(now)
            THEN Count(calls'[r], "nodes") = 0 /\ nodesNow'[r] = 0
            ELSE pc'[r] = "nodes" /\ calls'[r] = <<"nodes">> /\ nodesNow'[r] = now
C35_OverrideIgnored == [][C35_Step]_vars /\ []C35_State
\* An Ethereum request naming chainz was answered by the node adapter.
C35_Witness ==
    \E r \in Req :
        /\ NamesAlternateOffBitcoin(r) /\ normalizedChain(input[r]) = eth
        /\ pc[r] = "done" /\ res[r].status = 200 /\ res[r].xOverrideIgnored
        /\ res[r].xProvider = "chainstack"
        /\ calls[r] = <<"nodes", "adapter">>

\* C36: the node-directory cache never goes backward: the expiry instant never
\* decreases, and a refresh that completes after a refresh that was started
\* later has completed does not replace the later one's list.
C36_Step ==
    /\ nodesCacheExpiry' >= nodesCacheExpiry
    /\ \A r \in Req :
          pc[r] = "nodes" /\ pc'[r] # "nodes" /\ cachedNodes.set
          /\ nodesNow[r] + CHAINSTACK_NODE_CACHE_TTL_MS < nodesCacheExpiry
              => cachedNodes' = cachedNodes
C36_CacheNeverGoesBackward == [][C36_Step]_vars

\* An input that reaches fetchChainstackNodes (lines 1608-1611) with the API
\* key set and no valid cached list (lines 271-279).
RefreshDue(in) ==
    /\ in.chain # <<>> /\ in.address # <<>>
    /\ CHAIN_PARAM_REGEX(in.chain)
    /\ CHAIN_HANDLERS(normalizedChain(in)) # "undefined"
    /\ ~AddressRejected(normalizedChain(in), in.address)
    /\ ~(normalizedChain(in) = btc /\ parseBalanceProvider(in.provider) \in {"chainz", "blockstream"})
    /\ apiKey /\ ~NodesCacheValid(now)
\* What the handler does with the list `nodes` for a chain served by an adapter.
ServedFrom(r, nodes) ==
    LET n == selectNode(nodes, normalizedChain(input[r]))
    IN  IF n = 0
        THEN res'[r].status = 502 /\ calls'[r] = calls[r]
        ELSE ctx'[r].node = nodes[n]

\* C37: node-directory refreshes are not coalesced: a listNodes call that
\* begins while the cache is empty or expired issues its own provisioning call
\* whether or not other calls are pending, every pending caller has issued
\* exactly one, and each caller is served from the list its own call returned.
C37_Step ==
    \A r \in Req :
        /\ pc[r] = "nodes" => Count(calls[r], "nodes") = 1
        /\ (pc[r] = "idle" /\ pc'[r] # "idle" /\ RefreshDue(input'[r]))
              => (pc'[r] = "nodes" /\ calls'[r] = <<"nodes">>)
        /\ \A results \in ProvisionResults :
              (NodesReply(r, results) /\ CHAIN_HANDLERS(normalizedChain(input[r])) = "own"
                  /\ normalizedChain(input[r]) # btc)
                  => ServedFrom(r, RunningNodes(results))
C37_NotCoalesced == [][C37_Step]_vars
\* Two requests for one chain began at the same instant, both called the
\* provisioning service, and one found a node in its list while the other did
\* not.
C37_Witness ==
    /\ now = 1 /\ input[1] = input[2] /\ NodesCacheValid(now)
    /\ Count(calls[1], "nodes") = 1 /\ Count(calls[2], "nodes") = 1
    /\ res[1].status = 502 /\ pc[2] = "adapter" /\ ctx[2].node # NoNode

\* The requests whose scan of address a has started and not settled.
ScansOf(a) == {r \in Req : Scanning(r) /\ input[r].address = a}

\* C38: a write to the scan cache changes the entry of one address only; it
\* is made by the one unsettled scan of that address, the one the in-flight
\* map registers, so no scan of the address started after it and the writes
\* of an address follow the order in which its scans started; and the
\* entry's observedAt never decreases.
C38_Step ==
    \A a \in BtcAddresses :
        btcCache'[a] # btcCache[a] =>
            /\ \A b \in BtcAddresses \ {a} : btcCache'[b] = btcCache[b]
            /\ ScansOf(a) = {inFlightBtc[a]}
            /\ pc[inFlightBtc[a]] = "scan" /\ scan'[inFlightBtc[a]].state = "settled"
            /\ btcCache'[a] # Null /\ btcCache'[a].at = now
            /\ btcCache[a] # Null => btcCache'[a].at >= btcCache[a].at
C38_WritesOrdered == [][C38_Step]_vars
\* Two scans of one address, one after the other, have each stored their
\* result, the second at a later instant.
C38_Witness ==
    /\ input[1].address = AddrA /\ input[2].address = AddrA
    /\ \A r \in {1, 2} : /\ Count(calls[r], "scan") = 1
                          /\ scan[r].ok /\ ~scan[r].cached
                          /\ scan[r].state \in {"settled", "done"}
    /\ btcCache[AddrA] # Null /\ btcCache[AddrA].at > 1

\* The positions in a fetch's history at which it issued the upstream call.
Issued(r, call) == {i \in 1..Len(attempt[r].events) : attempt[r].events[i] = call}
UpstreamCalls(r) ==
    Issued(r, "token") \cup Issued(r, "address") \cup Issued(r, "getbalance")
        \cup Issued(r, "addressbalance")
\* The address request at position j is a re-issue made after a 401, the
\* deletion of the cached token and the arrival of a new one.
ReissuedAfterRefresh(r, j) ==
    /\ j >= 7
    /\ SubSeq(attempt[r].events, j - 6, j - 1) = <<"address", "401", "del", "token", "ok", "set">>
C39_Calls ==
    \A r \in Req :
        /\ Cardinality(UpstreamCalls(r)) <= 4
        /\ attempt[r].fn = "blockstream" =>
              /\ Cardinality(Issued(r, "address")) <= 2
              /\ \A j \in Issued(r, "address") :
                    (\E i \in Issued(r, "address") : i < j) => ReissuedAfterRefresh(r, j)
              /\ Issued(r, "getbalance") \cup Issued(r, "addressbalance") = {}
        /\ attempt[r].fn = "chainz" =>
              /\ Cardinality(Issued(r, "getbalance")) <= 1
              /\ Issued(r, "addressbalance") \subseteq {3}
              /\ Issued(r, "addressbalance") # {} =>
                    SubSeq(attempt[r].events, 1, 2) = <<"getbalance", "failed">>
              /\ Issued(r, "token") \cup Issued(r, "address") = {}

\* C39: one call of fetchBlockstreamBalance or fetchChainzBalance issues a
\* bounded number of upstream calls and settles: Blockstream's address
\* request is issued at most twice, the second time only after a 401, the
\* deletion of the cached token and the receipt of a new one; Chainz is asked
\* at most twice, addressbalance only after getbalance has failed.
C39_BoundedAndTerminates ==
    /\ []C39_Calls
    /\ \A r \in Req : (attempt[r].pc # "idle") ~> (attempt[r].pc = "settled")
\* A Blockstream fetch answered on its re-issued request beside a Chainz
\* fetch answered on its second query.
C39_Witness ==
    \E r, q \in Req :
        /\ attempt[r].events = <<"token", "ok", "set", "address", "401", "del",
                                  "token", "ok", "set", "address", "200">>
        /\ attempt[r].outcome = "result"
        /\ attempt[q].events = <<"getbalance", "failed", "addressbalance", "returned">>
        /\ attempt[q].outcome = "result"

\* The Aptos addresses of the requests under way.
AptRequested == {input[r].address : r \in {q \in Req : Began(q) /\ normalizedChain(input[q]) = apt}}
\* The digits of an address text, without the 0x prefix if it has one.
HexBody(a) == IF StartsWith0x(a) THEN SubSeq(a, 3, Len(a)) ELSE a
IsHex(text) == \A i \in 1..Len(text) : text[i] \in HexDigits
\* The text denotes a value of at most 32 bytes.
FitsAptos(a) == Len(StripLeadingZeros(HexBody(a))) <= 64
LowerHexDigits == Digits \cup {"a", "b", "c", "d", "e", "f"}
IsCanonicalAptos(text) ==
    /\ Len(text) = 66 /\ StartsWith0x(text)
    /\ \A i \in 3..66 : text[i] \in LowerHexDigits
\* Every hex address of at most 32 bytes is mapped to 0x and 64 lower-case
\* hex digits of the same value.
C40_Normalizes ==
    \A a \in AptRequested :
        IsHex(HexBody(a)) /\ FitsAptos(a) =>
            /\ normalizeAptosAddress(a).ok
            /\ IsCanonicalAptos(normalizeAptosAddress(a).value.text)
            /\ StripLeadingZeros(HexBody(normalizeAptosAddress(a).value.text))
                  = toLowerCase(StripLeadingZeros(HexBody(a)))
\* The function maps its own output to itself.
C40_Idempotent ==
    \A a \in AptRequested :
        normalizeAptosAddress(a).ok =>
            normalizeAptosAddress(normalizeAptosAddress(a).value.text) = normalizeAptosAddress(a)
\* The function fails on a non-hex character and on more than 32 bytes.
C40_Fails ==
    \A a \in AptRequested : ~IsHex(HexBody(a)) \/ ~FitsAptos(a) => ~normalizeAptosAddress(a).ok
\* The function and validateAddress accept the same addresses.
C40_Agrees ==
    \A a \in AptRequested : normalizeAptosAddress(a).ok <=> AptValidateAddress(a)

\* C40: normalizeAptosAddress maps every hex address of at most 32 bytes to
\* 0x followed by 64 lower-case hex digits of the same value, is idempotent on
\* its output, fails on a non-hex character or more than 32 bytes, and
\* accepts exactly the addresses that the Aptos validateAddress accepts.
C40_NormalizesWhatValidateAccepts ==
    C40_Normalizes /\ C40_Idempotent /\ C40_Fails /\ C40_Agrees
====
